---------------------------- MODULE Spec2Model ----------------------------
(***************************************************************************)
(* Realtime session controller and request correlator of the endoscopy     *)
(* documentation assistant (src/public/main.js, realtime variant, lines     *)
(* 211-742).                                                                *)
(*                                                                          *)
(* The browser runs handlers to completion.  An async function is a task    *)
(* with a position (pc); a task suspended at an await is resumed either by  *)
(* the macrotask that settles what it awaits (HTTP response, file read) or, *)
(* for promises settled by socket handlers, through the microtask queue mq. *)
(* Macrotasks (user calls, socket events, timers, HTTP responses) run only  *)
(* when the microtask queue is empty.                                       *)
(***************************************************************************)
EXTENDS Integers, Sequences, FiniteSets, TLC

\* ------------------------------------------------------------------ bounds
MaxItems == 2
MaxSessions == 2
MaxSockets == 2
MaxRequests == 3
MaxTasks == 2
MaxDictations == 2
MaxTexts == 2

ItemIds == 1..MaxItems
SockIds == 1..MaxSockets
ReqIds == 1..MaxRequests
TaskIds == 1..MaxTasks
DictIds == 1..MaxDictations

VARIABLES
    sessionId,         \* state.sessionId: 0 is null
    sessionClosed,     \* state.sessionClosed
    uploads,           \* state.uploads: sequence of localIds
    items,             \* the upload item objects, by localId
    conversationDraft, \* state.conversationDraft, trimmed: 0 is the empty text
    classifyBusy,      \* state.classifyBusy
    realtimeSocket,    \* state.realtimeSocket: 0 is null
    micRecorder,       \* state.micRecorder is set
    micPending,        \* getUserMedia calls of startLiveMic not yet answered
    syncTimer,         \* the debounce timers of scheduleConversationSync that are armed
    realtimeRequests,  \* the Map realtimeRequests: its keys (request ids) in insertion order
    timers,            \* request timers armed by sendRealtimeRequest
    sockets,           \* the WebSocket objects created so far
    reqs,              \* the pending promises returned by sendRealtimeRequest, by request id
    tasks,             \* running async functions
    mq,                \* microtask queue: tasks whose awaited promise has settled
    nextSid,           \* next session id the backend hands out
    limits,            \* the configuration explored: what the page and its user supply
    logged,            \* the last message the last step added to the console, "none" if none
    escaped,           \* the last step ended in a promise rejection that nothing handles
    viewer,            \* the note opnoteViewer renders: "empty", "close" or "generate"
    urls,              \* the object URLs created for dictation audio, by id
    activeContextId,   \* SettingsPanel.activeContextId: 0 is null
    dictationDraft,    \* SettingsPanel.dictationDraft.url: 0 is null
    late,              \* the sockets on which a request timed out and is still unanswered
    completed,         \* the items in the order their classification completed
    mapping,           \* ImageDiagram.mapping: the entries of the mapping document
    label,             \* the label of an image given to the diagram
    normalized,        \* #normalizeLabel(label), NoResult before the call
    renormalized,      \* #normalizeLabel(normalized.key), NoResult before the call
    canonical,         \* #normalizeLabel of the key the alias table gives label
    mappingLoaded,     \* ImageDiagram.mapping is not null
    images,            \* ImageDiagram.images: the classified uploads
    layoutReady,       \* ImageDiagram._layoutReady
    pendingRender,     \* ImageDiagram._pendingRender
    hasRenderedOnce,   \* ImageDiagram._hasRenderedOnce
    markers,           \* the buckets whose markers and call-outs are on the page
    emptyState,        \* the placeholder text of emptyEl
    deferred,          \* the render calls updateOverlay made in the last step
    lightboxOpen,      \* the lightbox has the class lightbox--active
    activeIndex,       \* ImageDiagram.activeIndex
    runStart,          \* activeIndex when the current run of steps began
    runLen,            \* steps forward minus steps back in the current run
    runSteps,          \* steps in the current run
    draftText,         \* the text of state.conversationDraft when an item is classified
    documentation,     \* upload.documentation of the item being classified
    payload,           \* the request classifyQueued builds for the item, NoPayload before
    audioBuffer,       \* the rendered AudioBuffer given to #encodeWav
    wav                \* the bytes of the ArrayBuffer #encodeWav returns, <<>> before

pageVars == <<sessionId, sessionClosed, uploads, items, conversationDraft, classifyBusy,
          realtimeSocket, micRecorder, micPending, syncTimer, realtimeRequests,
          timers, sockets, reqs, tasks, mq, nextSid, limits, logged, escaped, viewer, urls,
          activeContextId, dictationDraft, late, completed>>
labelVars == <<mapping, label, normalized, renormalized, canonical>>
stageVars == <<mappingLoaded, images, layoutReady, pendingRender, hasRenderedOnce, markers,
               emptyState, deferred, lightboxOpen, activeIndex, runStart, runLen, runSteps>>
diagramVars == <<labelVars, stageVars>>
hintVars == <<draftText, documentation, payload>>
wavVars == <<audioBuffer, wav>>
utilVars == <<hintVars, wavVars>>
vars == <<pageVars, diagramVars, utilVars>>

\* ------------------------------------------------------------- data model
\* an upload item: sent counts its image.classify requests, removed tells that
\* removeImage filtered it out of the queue; preview and thumb are the object URLs
\* originalUrl and thumbnailUrl ("unused", "live", "revoked", "revoked twice"),
\* dict is the id of the URL of its dictation, 0 without dictation
NoItem == [status |-> "none", remoteId |-> 0, sent |-> 0, removed |-> FALSE,
           preview |-> "unused", thumb |-> "unused", dict |-> 0]
NoSocket == [st |-> "none", sid |-> 0]
NoReq == [kind |-> "none", sock |-> 0, text |-> 0]
NoTask == [kind |-> "none", pc |-> "none", res |-> "none", sock |-> 0, rid |-> 0,
           pend |-> <<>>, idx |-> 0, item |-> 0, sid |-> 0]

\* The configurations.  Each one bounds the images enqueued, the sessions the
\* backend creates, the WebSocket objects and requests alive at once, and says
\* how many different texts the user gives the conversation (talk), whether the microphone prompt
\* is ever answered, whether the console and the rejections nobody handles are
\* recorded, whether the note viewer is recorded and the Generate button used,
\* and whether the dictation modal of the settings panel is used.
ImagesConfig ==
    [items |-> MaxItems, sessions |-> 1, sockets |-> MaxSockets,
     requests |-> MaxRequests, tasks |-> MaxTasks, talk |-> 0, mic |-> FALSE,
     console |-> FALSE, note |-> FALSE, dictate |-> FALSE]
SessionsConfig ==
    [items |-> 1, sessions |-> MaxSessions, sockets |-> MaxSockets,
     requests |-> MaxRequests, tasks |-> MaxTasks, talk |-> 0, mic |-> FALSE,
     console |-> FALSE, note |-> FALSE, dictate |-> FALSE]
RealtimeConfig ==
    [items |-> 1, sessions |-> 1, sockets |-> 1, requests |-> MaxRequests,
     tasks |-> MaxTasks, talk |-> 1, mic |-> TRUE, console |-> FALSE, note |-> FALSE,
     dictate |-> FALSE]
ConsoleConfig ==
    [items |-> 1, sessions |-> 1, sockets |-> 1, requests |-> 1, tasks |-> MaxTasks,
     talk |-> 0, mic |-> FALSE, console |-> TRUE, note |-> TRUE, dictate |-> FALSE]
ContextConfig ==
    [items |-> 1, sessions |-> 1, sockets |-> 1, requests |-> 1, tasks |-> 1,
     talk |-> 0, mic |-> FALSE, console |-> FALSE, note |-> FALSE, dictate |-> TRUE]
TalkConfig ==
    [items |-> 0, sessions |-> 1, sockets |-> 1, requests |-> 2, tasks |-> MaxTasks,
     talk |-> MaxTexts, mic |-> FALSE, console |-> FALSE, note |-> FALSE, dictate |-> FALSE]
Configs == {ImagesConfig, SessionsConfig, RealtimeConfig, ConsoleConfig, ContextConfig,
            TalkConfig}

InitPage ==
    /\ sessionId = 0
    /\ sessionClosed = FALSE
    /\ uploads = <<>>
    /\ items = [i \in ItemIds |-> NoItem]
    /\ conversationDraft = 0
    /\ classifyBusy = FALSE
    /\ realtimeSocket = 0
    /\ micRecorder = FALSE
    /\ micPending = 0
    /\ syncTimer = 0
    /\ realtimeRequests = <<>>
    /\ timers = {}
    /\ sockets = [w \in SockIds |-> NoSocket]
    /\ reqs = [r \in ReqIds |-> NoReq]
    /\ tasks = [t \in TaskIds |-> NoTask]
    /\ mq = <<>>
    /\ nextSid = 1
    /\ logged = "none"
    /\ escaped = FALSE
    /\ viewer = "empty"
    /\ urls = [u \in DictIds |-> "unused"]
    /\ activeContextId = 0
    /\ dictationDraft = 0
    /\ late = {}
    /\ completed = <<>>

\* ------------------------------------------- image diagram: label lookup
\* A string is a sequence of one-character strings.
LowerLetters == <<"a", "b", "c", "d", "e", "f", "g", "h", "i", "j", "k", "l", "m",
                  "n", "o", "p", "q", "r", "s", "t", "u", "v", "w", "x", "y", "z">>
UpperLetters == <<"A", "B", "C", "D", "E", "F", "G", "H", "I", "J", "K", "L", "M",
                  "N", "O", "P", "Q", "R", "S", "T", "U", "V", "W", "X", "Y", "Z">>
Digits == {"0", "1", "2", "3", "4", "5", "6", "7", "8", "9"}
WhiteSpace == {" ", "\n"}
LetterIndex(letters, c) == CHOOSE i \in DOMAIN letters : letters[i] = c

\* String.prototype.toLowerCase and toUpperCase
LowerChar(c) ==
    IF \E i \in DOMAIN UpperLetters : UpperLetters[i] = c
    THEN LowerLetters[LetterIndex(UpperLetters, c)]
    ELSE c
UpperChar(c) ==
    IF \E i \in DOMAIN LowerLetters : LowerLetters[i] = c
    THEN UpperLetters[LetterIndex(LowerLetters, c)]
    ELSE c
ToLowerCase(s) == [i \in DOMAIN s |-> LowerChar(s[i])]
ToUpperCase(s) == [i \in DOMAIN s |-> UpperChar(s[i])]

\* String.prototype.trim
Trim(s) ==
    LET kept == {i \in DOMAIN s : s[i] \notin WhiteSpace}
        first == CHOOSE i \in kept : \A j \in kept : i <= j
        last == CHOOSE i \in kept : \A j \in kept : j <= i
    IN  IF kept = {} THEN <<>> ELSE SubSeq(s, first, last)

\* replace(/[^a-z0-9]+/g, "_"): every run of other characters becomes one "_"
IsSlugChar(c) == (\E i \in DOMAIN LowerLetters : LowerLetters[i] = c) \/ c \in Digits
RECURSIVE ReplaceRuns(_, _)
ReplaceRuns(s, out) ==
    IF s = <<>> THEN out
    ELSE IF IsSlugChar(Head(s)) THEN ReplaceRuns(Tail(s), Append(out, Head(s)))
    ELSE IF out # <<>> /\ out[Len(out)] = "_" THEN ReplaceRuns(Tail(s), out)
    ELSE ReplaceRuns(Tail(s), Append(out, "_"))
\* replace(/^_|_$/g, ""): one leading and one trailing "_" are dropped
StripEnds(s) ==
    LET front == IF s # <<>> /\ Head(s) = "_" THEN Tail(s) ELSE s
    IN  IF front # <<>> /\ front[Len(front)] = "_"
        THEN SubSeq(front, 1, Len(front) - 1)
        ELSE front
Slug(lowerLabel) == StripEnds(ReplaceRuns(lowerLabel, <<>>))

\* the alias table, one <<alias, key>> pair per property
GeJunction == <<"g", "e", "_", "j", "u", "n", "c", "t", "i", "o", "n">>
DuodenumThirdPart == <<"d", "u", "o", "d", "e", "n", "u", "m", "_", "t", "h", "i", "r", "d", "_", "p", "a", "r", "t">>
DuodenumFourthPart == <<"d", "u", "o", "d", "e", "n", "u", "m", "_", "f", "o", "u", "r", "t", "h", "_", "p", "a", "r", "t">>
ZLine == <<"z", "_", "l", "i", "n", "e">>
LABEL_ALIASES ==
    << <<<<"g", "a", "s", "t", "r", "o", "e", "s", "o", "p", "h", "a", "g", "e", "a", "l", " ", "j", "u", "n", "c", "t", "i", "o", "n", " ", "(", "g", "e", "j", ")">>,
       GeJunction>>,
       <<<<"g", "e", " ", "j", "u", "n", "c", "t", "i", "o", "n">>,
       GeJunction>>,
       <<<<"g", "e", "j">>,
       GeJunction>>,
       <<<<"t", "h", "i", "r", "d", " ", "p", "o", "r", "t", "i", "o", "n", " ", "(", "d", "3", ")">>,
       DuodenumThirdPart>>,
       <<<<"t", "h", "i", "r", "d", " ", "p", "o", "r", "t", "i", "o", "n", " ", "o", "f", " ", "d", "u", "o", "d", "e", "n", "u", "m", " ", "(", "d", "3", ")">>,
       DuodenumThirdPart>>,
       <<<<"f", "o", "u", "r", "t", "h", " ", "p", "o", "r", "t", "i", "o", "n", " ", "(", "d", "4", ")">>,
       DuodenumFourthPart>>,
       <<<<"f", "o", "u", "r", "t", "h", " ", "p", "o", "r", "t", "i", "o", "n", " ", "o", "f", " ", "d", "u", "o", "d", "e", "n", "u", "m", " ", "(", "d", "4", ")">>,
       DuodenumFourthPart>>,
       <<<<"z", " ", "l", "i", "n", "e">>,
       ZLine>>,
       <<<<"z", "-", "l", "i", "n", "e">>,
       ZLine>>>>
AliasNames == {LABEL_ALIASES[i][1] : i \in DOMAIN LABEL_ALIASES}
AliasKey(lowerLabel) ==
    LABEL_ALIASES[CHOOSE i \in DOMAIN LABEL_ALIASES : LABEL_ALIASES[i][1] = lowerLabel][2]

\* A mapping is the sequence of its entries, in the order of Object.entries;
\* mapping[key] is the entry of that key, truthy when there is one.
Keys(m) == {m[i].key : i \in DOMAIN m}
Coords(m, key) ==
    LET e == m[CHOOSE i \in DOMAIN m : m[i].key = key]
    IN  [display_name |-> e.display_name, group |-> e.group]

\* setMapping: displayNameIndex, a later entry overwrites an earlier one of
\* the same lower-cased display name
DisplayNames(m) == {ToLowerCase(m[i].display_name) : i \in DOMAIN m}
DisplayNameIndex(m, lowerLabel) ==
    LET same == {i \in DOMAIN m : ToLowerCase(m[i].display_name) = lowerLabel}
    IN  m[CHOOSE i \in same : \A j \in same : j <= i].key

\* #matchMappingByLabel: the key matched, NoMatch for null
NoMatch == <<>>
MatchLastFirst(m, lowerLabel) ==
    IF Slug(lowerLabel) # <<>> /\ Slug(lowerLabel) \in Keys(m)
    THEN Slug(lowerLabel)
    ELSE IF lowerLabel \in DisplayNames(m)
            /\ DisplayNameIndex(m, lowerLabel) \in Keys(m)
    THEN DisplayNameIndex(m, lowerLabel)
    ELSE IF lowerLabel \in Keys(m) THEN lowerLabel
    ELSE IF lowerLabel \in AliasNames /\ AliasKey(lowerLabel) \in Keys(m)
    THEN AliasKey(lowerLabel)
    ELSE NoMatch
MatchMappingByLabel(m, lowerLabel) ==
    IF lowerLabel \in AliasNames /\ AliasKey(lowerLabel) \in Keys(m)
    THEN AliasKey(lowerLabel)
    ELSE IF lowerLabel \in Keys(m) THEN lowerLabel
    ELSE IF lowerLabel \in DisplayNames(m)
            /\ DisplayNameIndex(m, lowerLabel) \in Keys(m)
    THEN DisplayNameIndex(m, lowerLabel)
    ELSE IF Slug(lowerLabel) # <<>> /\ Slug(lowerLabel) \in Keys(m)
    THEN Slug(lowerLabel)
    ELSE NoMatch

\* #normalizeLabel: NoCoords is coords: null, "null" is group: null
NoCoords == [display_name |-> <<>>, group |-> "null"]
Unlabeled == <<"u", "n", "l", "a", "b", "e", "l", "e", "d">>
UnlabeledName == <<"U", "n", "l", "a", "b", "e", "l", "e", "d">>
MatchedOnCleaned(m, cleaned, lower) == MatchMappingByLabel(m, cleaned)
Matched(m, cleaned, lower) == MatchMappingByLabel(m, lower)
NormalizeLabel(m, l) ==
    LET cleaned == Trim(l)
        lower == ToLowerCase(cleaned)
        matched == Matched(m, cleaned, lower)
    IN  IF matched # NoMatch
        THEN [key |-> matched, coords |-> Coords(m, matched),
              displayName |-> Coords(m, matched).display_name,
              group |-> Coords(m, matched).group]
        ELSE IF cleaned # <<>>
        THEN [key |-> lower, coords |-> NoCoords, displayName |-> cleaned,
              group |-> "null"]
        ELSE [key |-> Unlabeled, coords |-> NoCoords, displayName |-> UnlabeledName,
              group |-> "null"]
NoResult == [key |-> <<>>, coords |-> NoCoords, displayName |-> <<>>, group |-> "none"]

\* the mappings explored: the document served to the page is any JSON object
Entry(key, name, group) == [key |-> key, display_name |-> name, group |-> group]
ShortEntries ==
    <<Entry(<<"a", "_", "b">>, <<"A", " ", "b">>, "stomach"),
      Entry(<<"a", "b">>, <<"B">>, "colon")>>
FullMapping ==
    <<Entry(GeJunction, <<"G", "E", "J">>, "esophagus"),
      Entry(ZLine, <<"Z", " ", "L", "i", "n", "e">>, "esophagus"),
      Entry(DuodenumThirdPart, <<"D", "3">>, "duodenum"),
      Entry(DuodenumFourthPart, <<"D", "4">>, "duodenum")>> \o ShortEntries
PartialMapping ==
    <<Entry(ZLine, <<"Z", " ", "L", "i", "n", "e">>, "esophagus"),
      Entry(DuodenumThirdPart, <<"D", "3">>, "duodenum")>> \o ShortEntries
CasedMapping ==
    <<Entry(<<"a">>, <<"b">>, "colon"),
      Entry(<<"b", "b">>, <<"b">>, "stomach"),
      Entry(<<"A", "b">>, <<"b">>, "stomach")>>
AliasKeyedMapping ==
    <<Entry(GeJunction, <<"G", "E", "J">>, "esophagus"),
      Entry(<<"g", "e", "j">>, <<"b">>, "esophagus")>>
UnlabeledMapping ==
    <<Entry(<<"a", "b">>, UnlabeledName, "stomach")>>
EmptyMapping == <<>>
OverlappingMapping ==
    <<Entry(<<"b">>, <<"B", "b">>, "stomach"),
      Entry(<<"a">>, <<"B">>, "colon"),
      Entry(<<"a", "_", "b">>, <<"A", "b">>, "stomach"),
      Entry(<<"a", "b">>, <<"A", " ", "b">>, "colon")>>
Mappings == {FullMapping, PartialMapping, CasedMapping, AliasKeyedMapping,
             UnlabeledMapping, EmptyMapping, OverlappingMapping}

\* the labels explored: every short string over LabelChars, every alias in
\* four spellings with and without surrounding blanks, and every key
MaxLabelLen == 3
LabelChars == {"a", "b", "A", " ", "-", "_"}
ShortLabels == UNION {[1..n -> LabelChars] : n \in 0..MaxLabelLen}
Capitalize(s) == [i \in DOMAIN s |-> IF i = 1 THEN UpperChar(s[i]) ELSE s[i]]
Spellings(s) == {s, ToUpperCase(s), Capitalize(s)}
Padded(s) == {s, <<" ">> \o s, s \o <<" ">>, <<" ">> \o s \o <<" ">>}
AliasLabels == UNION {UNION {Padded(v) : v \in Spellings(a)} : a \in AliasNames}
KeyLabels == UNION {Keys(m) : m \in Mappings} \cup {Unlabeled}
Labels == ShortLabels \cup AliasLabels \cup KeyLabels

\* ------------------------------------------------- context text (main.js)
\* the template literal of buildContextText puts this before the note
ImageNote == <<"I", "m", "a", "g", "e", " ", "n", "o", "t", "e", ":", " ">>
BlankLine == <<"\n", "\n">>

\* Array.prototype.join
RECURSIVE Join(_, _)
Join(chunks, separator) ==
    IF chunks = <<>> THEN <<>>
    ELSE IF Len(chunks) = 1 THEN chunks[1]
    ELSE chunks[1] \o separator \o Join(Tail(chunks), separator)

\* upload.documentation is undefined until saveDocumentation stores one
NoDocumentation == [saved |-> FALSE, text |-> <<>>]
NoPayload == [type |-> "none", text_hint |-> <<>>]

\* buildContextText(upload), with state.conversationDraft passed as draft
BuildDocFirst(draft, doc) ==
    LET draftChunk == IF Trim(draft) # <<>> THEN <<Trim(draft)>> ELSE <<>>
        docChunk == IF doc.saved /\ Trim(doc.text) # <<>>
                    THEN <<ImageNote \o Trim(doc.text)>>
                    ELSE <<>>
    IN  Join(docChunk \o draftChunk, BlankLine)

BuildContextText(draft, doc) ==
    LET draftChunk == IF Trim(draft) # <<>> THEN <<Trim(draft)>> ELSE <<>>
        docChunk == IF doc.saved /\ Trim(doc.text) # <<>>
                    THEN <<ImageNote \o Trim(doc.text)>>
                    ELSE <<>>
    IN  Join(draftChunk \o docChunk, BlankLine)

\* the texts a user types: letters, blanks and line breaks
MaxTextLen == 2
TextChars == {"a", " ", "\n"}
Texts == UNION {[1..n -> TextChars] : n \in 0..MaxTextLen}
Documentations == {NoDocumentation} \cup {[saved |-> TRUE, text |-> t] : t \in Texts}

\* ------------------------------------------- WAV encoder (api-client.js)
\* String.prototype.charCodeAt, for the characters of the chunk names
CharCodeAt(c) ==
    CASE c = " " -> 32
      [] c = "A" -> 65
      [] c = "E" -> 69
      [] c = "F" -> 70
      [] c = "I" -> 73
      [] c = "R" -> 82
      [] c = "V" -> 86
      [] c = "W" -> 87
      [] c = "a" -> 97
      [] c = "d" -> 100
      [] c = "f" -> 102
      [] c = "m" -> 109
      [] c = "t" -> 116

\* #writeString: one byte for each character
WriteString(string) == [i \in DOMAIN string |-> CharCodeAt(string[i])]
Riff == <<"R", "I", "F", "F">>
Wave == <<"W", "A", "V", "E">>
Fmt == <<"f", "m", "t", " ">>
Data == <<"d", "a", "t", "a">>

\* the w low bytes of v, least significant first (littleEndian true)
LittleEndian(v, w) == [k \in 1..w |-> (v \div (256 ^ (k - 1))) % 256]
SetUint32(v) == LittleEndian(v, 4)
SetUint16(v) == LittleEndian(v, 2)
SetInt16(v) == LittleEndian(v % 65536, 2)

\* a sample is a number of halves: -2 is -1.0 and 1 is 0.5
\* Math.max(-1, Math.min(1, s))
Clamp(s) == IF s < -2 THEN -2 ELSE IF s > 2 THEN 2 ELSE s
\* s < 0 ? s * 0x8000 : s * 0x7fff, which setInt16 truncates to an integer
Scale(s) == IF s < 0 THEN -((-s * 32768) \div 2) ELSE (s * 32767) \div 2

\* #floatTo16BitPCM: two bytes for each sample
FloatTo16BitPCM(input) ==
    [k \in 1..(2 * Len(input)) |-> SetInt16(Scale(Clamp(input[(k + 1) \div 2])))[2 - (k % 2)]]

\* #interleave
FirstChannel(channels) == channels[1]

Interleave(channels) ==
    IF Len(channels) = 1 THEN channels[1]
    ELSE LET length == Len(channels[1])
             n == Len(channels)
         IN  [k \in 1..(length * n) |-> channels[((k - 1) % n) + 1][((k - 1) \div n) + 1]]

\* #encodeWav
EncodeWav(buffer) ==
    LET numChannels == buffer.numberOfChannels
        sampleRate == buffer.sampleRate
        interleaved == Interleave(buffer.channelData)
        bytesPerSample == 2
        blockAlign == numChannels * bytesPerSample
        byteRate == sampleRate * blockAlign
        dataSize == Len(interleaved) * bytesPerSample
    IN  WriteString(Riff) \o SetUint32(36 + dataSize) \o WriteString(Wave)
        \o WriteString(Fmt) \o SetUint32(16) \o SetUint16(1)
        \o SetUint16(numChannels) \o SetUint32(sampleRate) \o SetUint32(byteRate)
        \o SetUint16(blockAlign) \o SetUint16(bytesPerSample * 8)
        \o WriteString(Data) \o SetUint32(dataSize)
        \o FloatTo16BitPCM(interleaved)

\* the buffers startRendering returns: every channel has the same frames
MaxChannels == 2
MaxFrames == 2
SampleRates == {8000, 44100, 48000}
Samples == {-3, 0, 1}
NoBuffer == [numberOfChannels |-> 0, sampleRate |-> 0, channelData |-> <<>>]
ChannelData(c) == UNION {[1..c -> [1..len -> Samples]] : len \in 0..MaxFrames}
Buffers ==
    UNION {{[numberOfChannels |-> c, sampleRate |-> r, channelData |-> d] :
               r \in SampleRates, d \in ChannelData(c)} : c \in 1..MaxChannels}
\* one second of silence, mono, at the default rate of convertToWav
OneSecondMono ==
    [numberOfChannels |-> 1, sampleRate |-> 48000,
     channelData |-> <<[i \in 1..48000 |-> 0]>>]

\* nothing to classify and nothing to encode
InitUtil ==
    /\ draftText = <<>>
    /\ documentation = NoDocumentation
    /\ payload = NoPayload
    /\ audioBuffer = NoBuffer
    /\ wav = <<>>

\* the diagram after init: no mapping, no images, no layout
InitStage ==
    /\ mappingLoaded = FALSE
    /\ images = <<>>
    /\ layoutReady = FALSE
    /\ pendingRender = FALSE
    /\ hasRenderedOnce = FALSE
    /\ markers = <<>>
    /\ emptyState = ""
    /\ deferred = 0
    /\ lightboxOpen = FALSE
    /\ activeIndex = 0
    /\ runStart = 0
    /\ runLen = 0
    /\ runSteps = 0

\* the diagram is given a mapping and a label
InitLabels ==
    /\ limits = ImagesConfig
    /\ InitPage
    /\ mapping \in Mappings
    /\ label \in Labels
    /\ normalized = NoResult
    /\ renormalized = NoResult
    /\ canonical = NoResult
    /\ InitStage
    /\ InitUtil

\* normalize(L)
Normalize ==
    /\ normalized = NoResult
    /\ normalized' = NormalizeLabel(mapping, label)
    /\ UNCHANGED <<mapping, label, renormalized, canonical>>
    /\ UNCHANGED stageVars
    /\ UNCHANGED pageVars
    /\ UNCHANGED utilVars

\* normalize(normalize(L).key): the key is fed back as a label
Renormalize ==
    /\ normalized # NoResult
    /\ renormalized = NoResult
    /\ renormalized' = NormalizeLabel(mapping, normalized.key)
    /\ UNCHANGED <<mapping, label, normalized, canonical>>
    /\ UNCHANGED stageVars
    /\ UNCHANGED pageVars
    /\ UNCHANGED utilVars

\* normalize(k) for the key k the alias table gives the label
IsAlias(l) == ToLowerCase(Trim(l)) \in AliasNames
NormalizeCanonical ==
    /\ IsAlias(label)
    /\ canonical = NoResult
    /\ canonical' = NormalizeLabel(mapping, AliasKey(ToLowerCase(Trim(label))))
    /\ UNCHANGED <<mapping, label, normalized, renormalized>>
    /\ UNCHANGED stageVars
    /\ UNCHANGED pageVars
    /\ UNCHANGED utilVars

\* ----------------------------------------- image diagram: render, lightbox
MaxImages == 3
MaxSteps == 3

\* the mappings and uploads the diagram is given: an upload is classified and
\* carries its label and the remote id of its position, or it is not
DiagramMappings == {FullMapping, PartialMapping}
DiagramLabels == {<<"Z", "-", "l", "i", "n", "e">>, <<"z", " ", "l", "i", "n", "e">>,
                  <<"P">>}
Upload(status, l, id) == [status |-> status, label |-> l, remoteId |-> id]
UploadsAt(k) ==
    {Upload("classified", l, k) : l \in DiagramLabels} \cup {Upload("queued", <<>>, 0)}
UploadLists ==
    UNION {{q \in [1..n -> UNION {UploadsAt(k) : k \in 1..n}] :
               \A k \in 1..n : q[k] \in UploadsAt(k)} : n \in 0..MaxImages}
IsClassified(img) == img.status = "classified"
IsPrefix(p, q) == Len(p) <= Len(q) /\ SubSeq(q, 1, Len(p)) = p

\* updateOverlay: the letterboxed overlay of a stage of w by h pixels, both
\* sides in fifteenths of a pixel (DEFAULT_ASPECT_RATIO is 3 / 5)
StageSizes == {<<0, 0>>, <<300, 0>>, <<4, 4>>, <<300, 10>>, <<6, 100>>, <<300, 500>>, <<500, 500>>}
Abs(x) == IF x < 0 THEN 0 - x ELSE x
OffRatio(w, h) == 1000 * Abs(5 * w - 3 * h) > 5 * h
OverlayWidth(w, h) == IF OffRatio(w, h) /\ 5 * w > 3 * h THEN 9 * h ELSE 15 * w
OverlayHeight(w, h) == IF OffRatio(w, h) /\ ~(5 * w > 3 * h) THEN 25 * w ELSE 15 * h
HasValidSize(w, h) == OverlayWidth(w, h) >= 15 * 8 /\ OverlayHeight(w, h) >= 15 * 8

\* #buildMarkers: the buckets in the order of the Map, each with the key it
\* is filed under, the normalized label of its first image and its images
RawKey(img, n) == img.label
BucketKey(img, n) == n.key
\* `bucket.items.push(img)`
Unshift(list, img) == <<img>> \o list
Push(list, img) == Append(list, img)
RECURSIVE BuildMarkers(_, _, _)
BuildMarkers(m, imgs, buckets) ==
    IF imgs = <<>> THEN buckets
    ELSE LET img == Head(imgs)
             n == NormalizeLabel(m, img.label)
             key == BucketKey(img, n)
             has == \E i \in DOMAIN buckets : buckets[i].at = key
             with == IF has THEN buckets
                     ELSE Append(buckets, [at |-> key, key |-> n.key, coords |-> n.coords,
                                           displayName |-> n.displayName,
                                           group |-> n.group, items |-> <<>>])
             pushed == [i \in DOMAIN with |->
                           IF with[i].at = key
                           THEN [with[i] EXCEPT !.items = Push(@, img)]
                           ELSE with[i]]
         IN  BuildMarkers(m, Tail(imgs), pushed)

\* render: _pendingRender is set when the mapping is there and the layout is not
PendingKept(loaded, ready, pending) == pending
PendingAfter(loaded, ready, pending) == IF loaded /\ ~ready THEN TRUE ELSE pending

\* render, called with the mapping, images, layout and pending flag of the call
Render(loaded, m, imgs, ready, pending) ==
    /\ markers' = IF loaded /\ ready /\ imgs # <<>> THEN BuildMarkers(m, imgs, <<>>)
                  ELSE <<>>
    /\ emptyState' = IF ~loaded THEN "Loading diagram mapping..."
                     ELSE IF ~ready THEN "Preparing diagram layout..."
                     ELSE IF imgs = <<>> THEN "No processed images yet."
                     ELSE ""
    /\ pendingRender' = PendingAfter(loaded, ready, pending)
    /\ hasRenderedOnce' = IF loaded /\ ready THEN TRUE ELSE hasRenderedOnce

\* the page idle, the diagram as init leaves it
InitDiagram ==
    /\ limits = ImagesConfig
    /\ InitPage
    /\ mapping = EmptyMapping
    /\ label = <<>>
    /\ normalized = NoResult
    /\ renormalized = NoResult
    /\ canonical = NoResult
    /\ InitStage
    /\ InitUtil

\* setMapping, called once by bootstrap
SetMapping(m) ==
    /\ ~mappingLoaded
    /\ mapping' = m
    /\ mappingLoaded' = TRUE
    /\ Render(TRUE, m, images, layoutReady, pendingRender)
    /\ deferred' = 0
    /\ UNCHANGED <<label, normalized, renormalized, canonical>>
    /\ UNCHANGED <<images, layoutReady, lightboxOpen, activeIndex, runStart, runLen, runSteps>>
    /\ UNCHANGED pageVars
    /\ UNCHANGED utilVars

\* setImages(state.uploads): the page passes its uploads after a
\* classification, which adds classified images at the end, or the empty
\* list when a session starts
SetImages(uploaded) ==
    LET classified == SelectSeq(uploaded, IsClassified)
    IN  /\ classified = <<>> \/ IsPrefix(images, classified)
        /\ images' = classified
        /\ Render(mappingLoaded, mapping, classified, layoutReady, pendingRender)
        /\ deferred' = 0
        /\ runStart' = activeIndex
        /\ runLen' = 0
        /\ runSteps' = 0
        /\ UNCHANGED labelVars
        /\ UNCHANGED <<mappingLoaded, layoutReady, lightboxOpen, activeIndex>>
        /\ UNCHANGED pageVars
        /\ UNCHANGED utilVars

\* updateOverlay, run for a stage of w by h pixels
UpdateOverlay(w, h) ==
    /\ IF w = 0 \/ h = 0
       THEN UNCHANGED <<layoutReady, pendingRender, hasRenderedOnce, markers, emptyState>>
               /\ deferred' = 0
       ELSE /\ layoutReady' = HasValidSize(w, h)
            /\ IF HasValidSize(w, h) /\ ~layoutReady /\ pendingRender /\ mappingLoaded
               THEN Render(mappingLoaded, mapping, images, TRUE, FALSE) /\ deferred' = 1
               ELSE UNCHANGED <<pendingRender, hasRenderedOnce, markers, emptyState>>
                       /\ deferred' = 0
    /\ UNCHANGED labelVars
    /\ UNCHANGED <<mappingLoaded, images, lightboxOpen, activeIndex, runStart, runLen, runSteps>>
    /\ UNCHANGED pageVars
    /\ UNCHANGED utilVars

\* openLightbox(imageId): the index is zero-based
OpenLightbox(imageId) ==
    LET found == {i \in DOMAIN images : images[i].remoteId = imageId}
        idx == (CHOOSE i \in found : \A j \in found : i <= j) - 1
    IN  /\ IF found = {}
           THEN UNCHANGED <<activeIndex, lightboxOpen, runStart, runLen, runSteps>>
           ELSE /\ activeIndex' = idx
                /\ lightboxOpen' = TRUE
                /\ runStart' = idx
                /\ runLen' = 0
                /\ runSteps' = 0
        /\ deferred' = 0
        /\ UNCHANGED labelVars
        /\ UNCHANGED <<mappingLoaded, images, layoutReady, pendingRender, hasRenderedOnce,
                       markers, emptyState>>
        /\ UNCHANGED pageVars
        /\ UNCHANGED utilVars

\* closeLightbox
CloseLightbox ==
    /\ lightboxOpen
    /\ lightboxOpen' = FALSE
    /\ deferred' = 0
    /\ UNCHANGED labelVars
    /\ UNCHANGED <<mappingLoaded, images, layoutReady, pendingRender, hasRenderedOnce,
                   markers, emptyState, activeIndex, runStart, runLen, runSteps>>
    /\ UNCHANGED pageVars
    /\ UNCHANGED utilVars

\* #stepLightbox(delta), from the navigation buttons of the open lightbox;
\* runStart, runLen and runSteps record the run of steps since the lightbox
\* was opened or the images were set
StepIndex(index, delta, n) == (index + delta + n) % n
StepLightbox(delta) ==
    /\ lightboxOpen
    /\ runSteps < MaxSteps
    /\ IF Len(images) = 0
       THEN UNCHANGED <<activeIndex, runLen, runSteps>>
       ELSE /\ activeIndex' = StepIndex(activeIndex, delta, Len(images))
            /\ runLen' = runLen + delta
            /\ runSteps' = runSteps + 1
    /\ deferred' = 0
    /\ UNCHANGED labelVars
    /\ UNCHANGED <<mappingLoaded, images, layoutReady, pendingRender, hasRenderedOnce,
                   markers, emptyState, lightboxOpen, runStart>>
    /\ UNCHANGED pageVars
    /\ UNCHANGED utilVars

\* an item with a draft and a documentation is about to be classified
InitContext ==
    /\ limits = ImagesConfig
    /\ InitPage
    /\ mapping = EmptyMapping
    /\ label = <<>>
    /\ normalized = NoResult
    /\ renormalized = NoResult
    /\ canonical = NoResult
    /\ InitStage
    /\ draftText \in Texts
    /\ documentation \in Documentations
    /\ payload = NoPayload
    /\ audioBuffer = NoBuffer
    /\ wav = <<>>

\* classifyQueued builds the request of the item
BuildPayload ==
    /\ payload = NoPayload
    /\ payload' = [type |-> "image.classify",
                   text_hint |-> BuildContextText(draftText, documentation)]
    /\ UNCHANGED <<draftText, documentation>>
    /\ UNCHANGED wavVars
    /\ UNCHANGED diagramVars
    /\ UNCHANGED pageVars

\* convertToWav has rendered a buffer
InitWav ==
    /\ limits = ImagesConfig
    /\ InitPage
    /\ mapping = EmptyMapping
    /\ label = <<>>
    /\ normalized = NoResult
    /\ renormalized = NoResult
    /\ canonical = NoResult
    /\ InitStage
    /\ draftText = <<>>
    /\ documentation = NoDocumentation
    /\ payload = NoPayload
    /\ audioBuffer \in Buffers \cup {OneSecondMono}
    /\ wav = <<>>

\* convertToWav encodes the rendered buffer
ConvertToWav ==
    /\ wav = <<>>
    /\ wav' = EncodeWav(audioBuffer)
    /\ UNCHANGED audioBuffer
    /\ UNCHANGED hintVars
    /\ UNCHANGED diagramVars
    /\ UNCHANGED pageVars

\* the page, with a diagram that is given no label
Init ==
    /\ limits \in Configs
    /\ InitPage
    /\ mapping = EmptyMapping
    /\ label = <<>>
    /\ normalized = NoResult
    /\ renormalized = NoResult
    /\ canonical = NoResult
    /\ InitStage
    /\ InitUtil

\* ---------------------------------------------------------------- helpers
Min(S) == CHOOSE x \in S : \A y \in S : x <= y

FreeTasks == {t \in 1..limits.tasks : tasks[t].kind = "none"}
FreeSocks == {w \in 1..limits.sockets : sockets[w].st = "none"}
FreeReqs == {r \in 1..limits.requests : reqs[r].kind = "none"}
FreeItems == {i \in 1..limits.items : items[i].status = "none"}

\* the keys of the Map realtimeRequests; the entry of key k settles promise k
PendingIds == {realtimeRequests[k] : k \in 1..Len(realtimeRequests)}

\* realtimeRequests.delete(k)
MapDelete(k) == SelectSeq(realtimeRequests, LAMBDA x : x # k)

\* the elements of the set S of numbers, in increasing order
RECURSIVE SortedSeq(_)
SortedSeq(S) == IF S = {} THEN <<>> ELSE <<Min(S)>> \o SortedSeq(S \ {Min(S)})

\* WebSocket.readyState === WebSocket.OPEN
IsOpen(socks, w) == w # 0 /\ socks[w].st = "open"

\* ensureRealtimeSocket returns without creating a WebSocket
EnsureReturnsEarly(sock, socks, sid) == IsOpen(socks, sock) \/ sid = 0

\* sendRealtime(payload) succeeds
SendsAnyway == TRUE
CanSend == IsOpen(sockets, realtimeSocket)

\* ----------------------------------------------------------------- outputs
\* consoleLog.add(msg, level): the messages of each level
ErrorMessages ==
    {"Unable to start session", "Unable to auto-start session; classification paused.",
     "Start a session before classifying images.",
     "Session is closed. Start a new session to classify more images.",
     "Failed to classify", "Failed to close session", "Failed to sync conversation",
     "Start and close a session before generating an op note.",
     "Failed to generate operative note", "Dictation failed", "Mic capture failed",
     "Realtime websocket error; realtime stream unavailable.", "Realtime error"}
WarningMessages == {"Close the session first so we can use the full conversation."}
InfoMessages ==
    {"Session auto-started for incoming images.", "Queued images", "Classifying image",
     "No queued images to classify.", "No active session to close.",
     "Session already closed.",
     "Session closed. Auto generation disabled; use Generate Op Note.",
     "Dictation captured", "Live mic streaming to realtime session.",
     "Captured dictation", "Cleared dictation"}
SuccessMessages ==
    {"Session started", "Done", "Operative note generated automatically.",
     "Operative note generated on demand.", "Conversation synced to realtime context.",
     "Realtime websocket connected."}

\* the console after a step whose last message is msg
Log(msg) == IF limits.console THEN msg ELSE "none"

\* a rejected promise without a handler: the unhandledrejection event
Escapes(b) == limits.console /\ b

\* opnoteViewer.renderMarkdown(note)
Rendered(note) == IF limits.note THEN note ELSE viewer

\* ------------------------------------------------------ request correlator
\* realtimeRequests.get(payload.request_id): the promise of the entry, 0 if none
LookupOldestPending(m) == IF realtimeRequests = <<>> THEN 0 ELSE Head(realtimeRequests)
LookupPending(m) == IF m \in PendingIds THEN m ELSE 0

\* tasks suspended at `await sendRealtimeRequest(...)` on a promise of S
Woken(S) ==
    {t \in TaskIds : tasks[t].pc \in {"st_sync", "cq_cls"} /\ tasks[t].res = "none"
                     /\ tasks[t].rid \in S}

\* the message logged by the caller of a request nobody awaits, when the request
\* settles with result res (startLiveMic's .then/.catch, syncConversation's catch)
DetachedLog(r, res) ==
    IF Woken({r}) # {} THEN "none"
    ELSE CASE reqs[r].kind = "dict" ->
                  IF res = "ok" THEN "Dictation captured" ELSE "Dictation failed"
           [] reqs[r].kind = "sync" ->
                  IF res = "ok" THEN "Conversation synced to realtime context."
                  ELSE "Failed to sync conversation"
           [] reqs[r].kind = "conv" ->
                  IF res = "ok" THEN "none" ELSE "Failed to sync conversation"
           [] OTHER -> "none"

\* the last message logged when the requests of ps settle with res, prev if none
RECURSIVE LastLog(_, _, _)
LastLog(ps, res, prev) ==
    IF ps = <<>> THEN prev
    ELSE LET m == DetachedLog(Head(ps), res)
         IN  LastLog(Tail(ps), res, IF m = "none" THEN prev ELSE m)

\* their continuations, in the order the promises of the sequence ps were settled
WokenSeq(ps) ==
    LET rs == SelectSeq(ps, LAMBDA r : \E t \in Woken({r}) : TRUE)
    IN  [k \in 1..Len(rs) |-> CHOOSE t \in Woken({rs[k]}) : TRUE]

\* the tasks after the promises of S were settled with result res
WakeTasks(tk, S, res) ==
    [t \in TaskIds |-> IF t \in Woken(S) THEN [tk[t] EXCEPT !.res = res] ELSE tk[t]]

\* realtimeRequests.forEach(({reject}) => reject(closed)): every entry, in Map order
AllButOldest == IF realtimeRequests = <<>> THEN <<>> ELSE Tail(realtimeRequests)
RejectedOnClose == realtimeRequests

RejectedSet == {RejectedOnClose[k] : k \in 1..Len(RejectedOnClose)}

\* the pending promises after those of S were settled
Settled(rq, S) == [p \in ReqIds |-> IF p \in S THEN NoReq ELSE rq[p]]

\* sendRealtimeRequest with an open socket: the promise, its entry and its timer
NewReq == Min(FreeReqs)
Registered(kind) ==
    [reqs EXCEPT ![NewReq] = [kind |-> kind, sock |-> realtimeSocket,
                              text |-> IF kind \in {"conv", "sync"} THEN conversationDraft
                                       ELSE 0]]

\* a detached sendRealtimeRequest whose caller catches the rejection itself
SendDetached(kind) ==
    IF CanSend
    THEN /\ FreeReqs # {}
         /\ reqs' = Registered(kind)
         /\ realtimeRequests' = Append(realtimeRequests, NewReq)
         /\ timers' = timers \cup {NewReq}
    ELSE UNCHANGED <<reqs, realtimeRequests, timers>>

\* `clearTimeout(timer)` of the resolve and reject of an entry: the timers
\* left when the entries of S are settled
TimersLeftArmed(S) == timers
TimersCleared(S) == timers \ S

\* handleRealtimeMessage: an entry is rejected by a message of type "error" and
\* resolved by any other; a message without entry is logged if its type is "error"
AlwaysResolve(type) == "ok"
SettleResult(type) == IF type = "error" THEN "server" ELSE "ok"
UnmatchedLog(type) == IF type = "error" THEN "Realtime error" ELSE "none"

\* ws.onmessage -> handleRealtimeMessage(payload) with payload.request_id = m, the
\* id of a request sent on w
SocketMessage(w, m, type) ==
    /\ mq = <<>>
    /\ sockets[w].st = "open"
    /\ reqs[m].kind # "none" /\ reqs[m].sock = w
    /\ LET p == LookupPending(m) IN
       IF p # 0
       THEN /\ realtimeRequests' = MapDelete(m)
            /\ reqs' = Settled(reqs, {p})
            /\ timers' = TimersCleared({p})
            /\ tasks' = WakeTasks(tasks, {p}, SettleResult(type))
            /\ mq' = mq \o WokenSeq(<<p>>)
       ELSE UNCHANGED <<reqs, realtimeRequests, timers, tasks, mq>>
    /\ logged' = Log(LET p == LookupPending(m) IN
                     IF p # 0 THEN DetachedLog(p, SettleResult(type))
                     ELSE UnmatchedLog(type))
    /\ escaped' = FALSE
    /\ UNCHANGED <<sessionId, sessionClosed, uploads, items, conversationDraft,
                   classifyBusy, realtimeSocket, micRecorder, micPending, syncTimer,
                   sockets, nextSid, limits, viewer, urls,
                   activeContextId, dictationDraft>>
    /\ UNCHANGED diagramVars
    /\ UNCHANGED utilVars
    /\ UNCHANGED late
    /\ UNCHANGED completed

\* ws.onmessage -> handleRealtimeMessage(payload) with the request_id of a
\* request that timed out: ids are unique, so the Map has no entry for it
LateMessage(w, type) ==
    /\ mq = <<>>
    /\ sockets[w].st = "open"
    /\ w \in late
    /\ late' = late \ {w}
    /\ UNCHANGED completed
    /\ logged' = Log(UnmatchedLog(type))
    /\ escaped' = FALSE
    /\ UNCHANGED <<sessionId, sessionClosed, uploads, items, conversationDraft,
                   classifyBusy, realtimeSocket, micRecorder, micPending, syncTimer,
                   realtimeRequests, timers, sockets, reqs, tasks, mq, nextSid, limits,
                   viewer, urls, activeContextId, dictationDraft>>
    /\ UNCHANGED diagramVars
    /\ UNCHANGED utilVars

\* the timer callback of sendRealtimeRequest for request r: the promises it rejects
TimedOutAll(r) == PendingIds
TimedOut(r) == {r}

\* `realtimeRequests.delete(requestId)` of the timer callback
TimeoutKeepsEntry(r) == realtimeRequests
TimeoutDeletes(r) == MapDelete(r)

RequestTimeout(r) ==
    /\ mq = <<>>
    /\ r \in timers
    /\ timers' = (timers \ {r}) \ TimedOut(r)
    /\ realtimeRequests' = SelectSeq(TimeoutDeletes(r), LAMBDA k : k \notin TimedOut(r) \ {r})
    /\ reqs' = Settled(reqs, TimedOut(r))
    /\ tasks' = WakeTasks(tasks, TimedOut(r), "timeout")
    /\ mq' = mq \o WokenSeq(SortedSeq(TimedOut(r)))
    /\ logged' = Log(LastLog(SortedSeq(TimedOut(r)), "timeout", "none"))
    /\ escaped' = FALSE
    /\ UNCHANGED <<sessionId, sessionClosed, uploads, items, conversationDraft,
                   classifyBusy, realtimeSocket, micRecorder, micPending, syncTimer,
                   sockets, nextSid, limits, viewer, urls,
                   activeContextId, dictationDraft>>
    /\ UNCHANGED diagramVars
    /\ UNCHANGED utilVars
    /\ late' = IF limits.console THEN late \cup {reqs[r].sock} ELSE late
    /\ UNCHANGED completed

\* -------------------------------------------------------------- websocket
NewSock == Min(FreeSocks)

\* new WebSocket(getWsUrl(state.sessionId)) for session sid
Created(socks, sid) == [socks EXCEPT ![NewSock] = [st |-> "connecting", sid |-> sid]]

\* the task suspended at `await ensureRealtimeSocket()` on socket w
Awaiting(w) ==
    {t \in TaskIds : tasks[t].pc \in {"st_sock", "cq_sock"} /\ tasks[t].res = "none"
                     /\ tasks[t].sock = w}

\* the tasks after the promise of ensureRealtimeSocket for w settled with res
SocketSettled(w, res) ==
    [t \in TaskIds |-> IF t \in Awaiting(w) THEN [tasks[t] EXCEPT !.res = res]
                       ELSE tasks[t]]

\* ws.onopen
SocketOpen(w) ==
    /\ mq = <<>>
    /\ sockets[w].st = "connecting"
    /\ sockets' = [sockets EXCEPT ![w].st = "open"]
    /\ realtimeSocket' = w
    /\ tasks' = SocketSettled(w, "ok")
    /\ mq' = mq \o SortedSeq(Awaiting(w))
    /\ logged' = Log("Realtime websocket connected.")
    /\ escaped' = FALSE
    /\ UNCHANGED <<sessionId, sessionClosed, uploads, items, conversationDraft,
                   classifyBusy, micRecorder, micPending, syncTimer, realtimeRequests,
                   timers, reqs, nextSid, limits, viewer, urls,
                   activeContextId, dictationDraft>>
    /\ UNCHANGED diagramVars
    /\ UNCHANGED utilVars
    /\ UNCHANGED late
    /\ UNCHANGED completed

\* ws.onerror while connecting (the close event follows)
SocketError(w) ==
    /\ mq = <<>>
    /\ sockets[w].st = "connecting"
    /\ sockets' = [sockets EXCEPT ![w].st = "failed"]
    /\ tasks' = SocketSettled(w, "sockerr")
    /\ mq' = mq \o SortedSeq(Awaiting(w))
    /\ logged' = Log("Realtime websocket error; realtime stream unavailable.")
    /\ escaped' = FALSE
    /\ UNCHANGED <<sessionId, sessionClosed, uploads, items, conversationDraft,
                   classifyBusy, realtimeSocket, micRecorder, micPending, syncTimer,
                   realtimeRequests, timers, reqs, nextSid, limits, viewer, urls,
                   activeContextId, dictationDraft>>
    /\ UNCHANGED diagramVars
    /\ UNCHANGED utilVars
    /\ UNCHANGED late
    /\ UNCHANGED completed

\* ws.onclose: the peer closed an open socket, or a local close() / a failed
\* connection attempt completed; the closed WebSocket object is garbage afterwards
SocketCloseEvent(w) ==
    /\ mq = <<>>
    /\ sockets[w].st \in {"open", "closing", "failed"}
    /\ sockets' = [sockets EXCEPT ![w] = NoSocket]
    /\ realtimeSocket' = IF realtimeSocket = w THEN 0 ELSE realtimeSocket
    /\ reqs' = Settled(reqs, RejectedSet)
    /\ timers' = TimersCleared(RejectedSet)
    /\ realtimeRequests' = <<>>
    /\ tasks' = WakeTasks(tasks, RejectedSet, "closed")
    /\ mq' = mq \o WokenSeq(RejectedOnClose)
    /\ logged' = Log(LastLog(RejectedOnClose, "closed", "none"))
    /\ escaped' = FALSE
    /\ UNCHANGED <<sessionId, sessionClosed, uploads, items, conversationDraft,
                   classifyBusy, micRecorder, micPending, syncTimer, nextSid, limits, viewer, urls,
                   activeContextId, dictationDraft>>
    /\ UNCHANGED diagramVars
    /\ UNCHANGED utilVars
    /\ UNCHANGED late
    /\ UNCHANGED completed

\* ------------------------------------------------------ session controller
NewTask == Min(FreeTasks)

\* the synchronous part of classifyQueued run by task record tk, up to
\* `await ensureRealtimeSocket()`: the task, the sockets, whether it resumes at once
CqEntry(tk) ==
    IF sessionId = 0 \/ sessionClosed
    THEN [task |-> NoTask, socks |-> sockets, push |-> FALSE]
    ELSE IF EnsureReturnsEarly(realtimeSocket, sockets, sessionId)
    THEN [task |-> [tk EXCEPT !.pc = "cq_sock", !.res = "ok", !.sock = 0],
          socks |-> sockets, push |-> TRUE]
    ELSE [task |-> [tk EXCEPT !.pc = "cq_sock", !.res = "none", !.sock = NewSock],
          socks |-> Created(sockets, sessionId), push |-> FALSE]

\* the last console message after the guards of classifyQueued, prev if they pass
CqEntryLog(prev) ==
    IF sessionId = 0 THEN "Start a session before classifying images."
    ELSE IF sessionClosed THEN "Session is closed. Start a new session to classify more images."
    ELSE prev

CqEntryPossible ==
    \/ sessionId = 0 \/ sessionClosed
    \/ EnsureReturnsEarly(realtimeSocket, sockets, sessionId)
    \/ FreeSocks # {}

\* startSession(autoGenerate): startSessionInternal up to `await api.startSession`
StartSession ==
    /\ mq = <<>>
    /\ FreeTasks # {}
    /\ nextSid <= limits.sessions
    /\ tasks' = [tasks EXCEPT ![NewTask] = [NoTask EXCEPT !.kind = "start", !.pc = "st_req"]]
    /\ logged' = Log("none")
    /\ escaped' = FALSE
    /\ UNCHANGED <<sessionId, sessionClosed, uploads, items, conversationDraft,
                   classifyBusy, realtimeSocket, micRecorder, micPending, syncTimer,
                   realtimeRequests, timers, sockets, reqs, mq, nextSid, limits, viewer, urls,
                   activeContextId, dictationDraft>>
    /\ UNCHANGED diagramVars
    /\ UNCHANGED utilVars
    /\ UNCHANGED late
    /\ UNCHANGED completed

\* the session id of the response of POST /sessions
NewSessionId == nextSid

\* `state.sessionClosed = false` of startSessionInternal
ClosedKept == sessionClosed
ClosedAfterStart == FALSE

\* the upload queue after startSessionInternal reset it
ResetUploads == <<>>

\* POST /sessions answered: startSessionInternal up to `await ensureRealtimeSocket()`
StartResponseOk(t) ==
    /\ mq = <<>>
    /\ tasks[t].pc = "st_req"
    /\ nextSid <= limits.sessions
    /\ sessionId' = NewSessionId
    /\ nextSid' = nextSid + 1
    /\ sessionClosed' = ClosedAfterStart
    /\ uploads' = ResetUploads
    /\ IF EnsureReturnsEarly(realtimeSocket, sockets, sessionId')
       THEN /\ tasks' = [tasks EXCEPT ![t].pc = "st_sock", ![t].res = "ok",
                                      ![t].sid = sessionId']
            /\ mq' = Append(mq, t)
            /\ UNCHANGED sockets
       ELSE /\ FreeSocks # {}
            /\ sockets' = Created(sockets, sessionId')
            /\ tasks' = [tasks EXCEPT ![t].pc = "st_sock", ![t].sock = NewSock,
                                      ![t].sid = sessionId']
            /\ UNCHANGED mq
    /\ logged' = Log(IF tasks[t].kind = "start" THEN "Session started" ELSE "none")
    /\ escaped' = FALSE
    /\ viewer' = Rendered("empty")
    /\ UNCHANGED <<items, conversationDraft, classifyBusy, realtimeSocket, micRecorder,
                   micPending, syncTimer, realtimeRequests, timers, reqs, limits, urls,
                   activeContextId, dictationDraft>>
    /\ UNCHANGED diagramVars
    /\ UNCHANGED utilVars
    /\ UNCHANGED late
    /\ UNCHANGED completed

\* the catch blocks that a failure inside startSessionInternal reaches for task t:
\* startSessionInternal logs unless silent and rethrows; autoClassify catches and
\* logs; the click handler of the Start button does not handle the rejection
StartFailLog(t) ==
    IF tasks[t].kind = "auto" THEN "Unable to auto-start session; classification paused."
    ELSE "Unable to start session"
StartFailEscapes(t) == tasks[t].kind = "start"

\* the last console message of the end of startSessionInternal for task t
StartFinishLog(t) ==
    IF tasks[t].kind = "auto" THEN CqEntryLog("Session auto-started for incoming images.")
    ELSE "none"

\* POST /sessions failed: startSessionInternal logs and rethrows; autoClassify
\* catches, logs and returns
StartResponseFail(t) ==
    /\ mq = <<>>
    /\ tasks[t].pc = "st_req"
    /\ tasks' = [tasks EXCEPT ![t] = NoTask]
    /\ logged' = Log(StartFailLog(t))
    /\ escaped' = Escapes(StartFailEscapes(t))
    /\ UNCHANGED <<sessionId, sessionClosed, uploads, items, conversationDraft,
                   classifyBusy, realtimeSocket, micRecorder, micPending, syncTimer,
                   realtimeRequests, timers, sockets, reqs, mq, nextSid, limits, viewer, urls,
                   activeContextId, dictationDraft>>
    /\ UNCHANGED diagramVars
    /\ UNCHANGED utilVars
    /\ UNCHANGED late
    /\ UNCHANGED completed

\* startLiveMic() up to `await getUserMedia`: the number of pending requests
\* (counted only where the permission prompt is answered)
MicAfterStart ==
    IF micRecorder \/ sessionClosed \/ ~limits.mic THEN micPending ELSE micPending + 1

\* the end of startSessionInternal for task t: startSession returns, autoClassify
\* goes on to `await classifyQueued(true)`
StartFinish(t) ==
    IF tasks[t].kind = "auto"
    THEN /\ CqEntryPossible
         /\ tasks' = [tasks EXCEPT ![t] = CqEntry(tasks[t]).task]
         /\ sockets' = CqEntry(tasks[t]).socks
         /\ mq' = IF CqEntry(tasks[t]).push THEN Append(Tail(mq), t) ELSE Tail(mq)
    ELSE /\ tasks' = [tasks EXCEPT ![t] = NoTask]
         /\ mq' = Tail(mq)
         /\ UNCHANGED sockets

\* startSessionInternal resumed after `await ensureRealtimeSocket()`
ContinueStartAfterSocket ==
    /\ mq # <<>>
    /\ LET t == Head(mq) IN
       /\ tasks[t].pc = "st_sock"
       /\ IF tasks[t].res # "ok"
          THEN /\ tasks' = [tasks EXCEPT ![t] = NoTask]
               /\ mq' = Tail(mq)
               /\ UNCHANGED <<micPending, reqs, realtimeRequests, timers, sockets>>
          ELSE /\ micPending' = MicAfterStart
               /\ IF conversationDraft # 0
                  THEN IF CanSend
                       THEN /\ FreeReqs # {}
                            /\ reqs' = Registered("conv")
                            /\ realtimeRequests' = Append(realtimeRequests, NewReq)
                            /\ timers' = timers \cup {NewReq}
                            /\ tasks' = [tasks EXCEPT ![t].pc = "st_sync", ![t].res = "none",
                                                      ![t].rid = NewReq, ![t].sock = 0]
                            /\ mq' = Tail(mq)
                            /\ UNCHANGED sockets
                       ELSE /\ tasks' = [tasks EXCEPT ![t].pc = "st_sync", ![t].res = "notconn",
                                                      ![t].rid = 0, ![t].sock = 0]
                            /\ mq' = Append(Tail(mq), t)
                            /\ UNCHANGED <<reqs, realtimeRequests, timers, sockets>>
                  ELSE /\ StartFinish(t)
                       /\ UNCHANGED <<reqs, realtimeRequests, timers>>
    /\ logged' = Log(LET t == Head(mq) IN
                     IF tasks[t].res # "ok" THEN StartFailLog(t)
                     ELSE IF conversationDraft # 0 THEN "none" ELSE StartFinishLog(t))
    /\ escaped' = Escapes(tasks[Head(mq)].res # "ok" /\ StartFailEscapes(Head(mq)))
    /\ UNCHANGED <<sessionId, sessionClosed, uploads, items, conversationDraft,
                   classifyBusy, realtimeSocket, micRecorder, syncTimer, nextSid, limits, viewer, urls,
                   activeContextId, dictationDraft>>
    /\ UNCHANGED diagramVars
    /\ UNCHANGED utilVars
    /\ UNCHANGED late
    /\ UNCHANGED completed

\* syncConversation resumed after `await sendRealtimeRequest`: it logs and returns
ContinueSyncConversation ==
    /\ mq # <<>>
    /\ LET t == Head(mq) IN
       /\ tasks[t].pc = "st_sync"
       /\ tasks' = [tasks EXCEPT ![t].pc = "st_sync2", ![t].res = "ok", ![t].rid = 0]
       /\ mq' = Append(Tail(mq), t)
    /\ logged' = Log(IF tasks[Head(mq)].res = "ok" THEN "none" ELSE "Failed to sync conversation")
    /\ escaped' = FALSE
    /\ UNCHANGED <<sessionId, sessionClosed, uploads, items, conversationDraft,
                   classifyBusy, realtimeSocket, micRecorder, micPending, syncTimer,
                   realtimeRequests, timers, sockets, reqs, nextSid, limits, viewer, urls,
                   activeContextId, dictationDraft>>
    /\ UNCHANGED diagramVars
    /\ UNCHANGED utilVars
    /\ UNCHANGED late
    /\ UNCHANGED completed

\* startSessionInternal resumed after `await syncConversation(true)`
ContinueStartAfterSync ==
    /\ mq # <<>>
    /\ LET t == Head(mq) IN
       /\ tasks[t].pc = "st_sync2"
       /\ StartFinish(t)
    /\ logged' = Log(StartFinishLog(Head(mq)))
    /\ escaped' = FALSE
    /\ UNCHANGED <<sessionId, sessionClosed, uploads, items, conversationDraft,
                   classifyBusy, realtimeSocket, micRecorder, micPending, syncTimer,
                   realtimeRequests, timers, reqs, nextSid, limits, viewer, urls,
                   activeContextId, dictationDraft>>
    /\ UNCHANGED diagramVars
    /\ UNCHANGED utilVars
    /\ UNCHANGED late
    /\ UNCHANGED completed

\* classifyQueued rejects when ensureRealtimeSocket does; neither autoClassify nor
\* the click handler of the Classify button handles the rejection
ClassifyFailEscapes(t) == tasks[t].res # "ok"

\* state.uploads.filter((u) => u.status === "queued")
QueuedReversed(ups) ==
    LET q == SelectSeq(ups, LAMBDA i : items[i].status = "queued")
    IN  [k \in 1..Len(q) |-> q[Len(q) + 1 - k]]
QueuedOf(ups) == SelectSeq(ups, LAMBDA i : items[i].status = "queued")

\* `if (state.classifyBusy) return;`
BusyIgnored == FALSE
BusyBlocks == classifyBusy

\* classifyQueued resumed after `await ensureRealtimeSocket()`: the batch
\* starts with its first item, up to `await fileToBase64`
ContinueClassifyAfterSocket ==
    /\ mq # <<>>
    /\ LET t == Head(mq)
           pending == QueuedOf(uploads)
       IN
       /\ tasks[t].pc = "cq_sock"
       /\ mq' = Tail(mq)
       /\ IF tasks[t].res # "ok" \/ pending = <<>> \/ BusyBlocks
          THEN /\ tasks' = [tasks EXCEPT ![t] = NoTask]
               /\ UNCHANGED <<items, classifyBusy>>
          ELSE /\ classifyBusy' = TRUE
               /\ items' = [items EXCEPT ![pending[1]].status = "classifying"]
               /\ tasks' = [tasks EXCEPT ![t].pc = "cq_read", ![t].res = "none",
                                         ![t].sock = 0, ![t].pend = pending, ![t].idx = 1]
    /\ logged' = Log(LET t == Head(mq) IN
                     IF tasks[t].res # "ok" THEN "none"
                     ELSE IF QueuedOf(uploads) = <<>>
                     THEN (IF tasks[t].kind = "classify" THEN "No queued images to classify."
                           ELSE "none")
                     ELSE IF BusyBlocks THEN "none" ELSE "Classifying image")
    /\ escaped' = Escapes(ClassifyFailEscapes(Head(mq)))
    /\ UNCHANGED <<sessionId, sessionClosed, uploads, conversationDraft, realtimeSocket,
                   micRecorder, micPending, syncTimer, realtimeRequests, timers, sockets,
                   reqs, nextSid, limits, viewer, urls,
                   activeContextId, dictationDraft>>
    /\ UNCHANGED diagramVars
    /\ UNCHANGED utilVars
    /\ UNCHANGED late
    /\ UNCHANGED completed

\* the item task t is working on
Current(t) == tasks[t].pend[tasks[t].idx]

\* the next index of the loop `for (idx = 0; idx < pending.length; idx++)`
SkipNext(t) == tasks[t].idx + 2
NextIndex(t) == tasks[t].idx + 1

\* the end of one loop iteration of classifyQueued for task t, the items being its:
\* the next item starts, or the batch ends
Advance(t, its) ==
    IF NextIndex(t) <= Len(tasks[t].pend)
    THEN /\ items' = [its EXCEPT ![tasks[t].pend[NextIndex(t)]].status = "classifying"]
         /\ tasks' = [tasks EXCEPT ![t].pc = "cq_read", ![t].res = "none", ![t].rid = 0,
                                   ![t].idx = NextIndex(t)]
         /\ UNCHANGED classifyBusy
    ELSE /\ items' = its
         /\ tasks' = [tasks EXCEPT ![t] = NoTask]
         /\ classifyBusy' = FALSE

\* the last console message of that step, msg being the outcome of the item
AdvanceLog(t, msg) ==
    IF NextIndex(t) <= Len(tasks[t].pend) THEN "Classifying image" ELSE msg

\* the items after the catch block of the loop
Failed(t, its) == [its EXCEPT ![Current(t)].status = "error"]

\* fileToBase64 resolved: sendRealtimeRequest({type: "image.classify", ...})
FileReadOk(t) ==
    /\ mq = <<>>
    /\ tasks[t].pc = "cq_read"
    /\ IF CanSend
       THEN /\ FreeReqs # {}
            /\ reqs' = Registered("classify")
            /\ realtimeRequests' = Append(realtimeRequests, NewReq)
            /\ timers' = timers \cup {NewReq}
            /\ items' = [items EXCEPT ![Current(t)].sent = @ + 1]
            /\ tasks' = [tasks EXCEPT ![t].pc = "cq_cls", ![t].rid = NewReq]
            /\ UNCHANGED mq
       ELSE /\ tasks' = [tasks EXCEPT ![t].pc = "cq_cls", ![t].res = "notconn"]
            /\ mq' = Append(mq, t)
            /\ UNCHANGED <<reqs, realtimeRequests, timers, items>>
    /\ logged' = Log("none")
    /\ escaped' = FALSE
    /\ UNCHANGED <<sessionId, sessionClosed, uploads, conversationDraft, classifyBusy,
                   realtimeSocket, micRecorder, micPending, syncTimer, sockets, nextSid, limits, viewer, urls,
                   activeContextId, dictationDraft>>
    /\ UNCHANGED diagramVars
    /\ UNCHANGED utilVars
    /\ UNCHANGED late
    /\ UNCHANGED completed

\* fileToBase64 rejected: the catch block marks the item and the loop goes on
FileReadFail(t) ==
    /\ mq = <<>>
    /\ tasks[t].pc = "cq_read"
    /\ Advance(t, Failed(t, items))
    /\ logged' = Log(AdvanceLog(t, "Failed to classify"))
    /\ escaped' = FALSE
    /\ UNCHANGED <<sessionId, sessionClosed, uploads, conversationDraft, realtimeSocket,
                   micRecorder, micPending, syncTimer, realtimeRequests, timers, sockets,
                   reqs, mq, nextSid, limits, viewer, urls,
                   activeContextId, dictationDraft>>
    /\ UNCHANGED diagramVars
    /\ UNCHANGED utilVars
    /\ UNCHANGED late
    /\ UNCHANGED completed

\* `upload.status = "classified"`: the order in which the items got there,
\* kept where more than one item is enqueued
Completed(i) == IF limits.items > 1 THEN Append(completed, i) ELSE completed

\* classifyQueued resumed after `await sendRealtimeRequest`: the result is stored
\* up to `await api.fetchThumbnail`, or the catch block marks the item
ContinueClassifyAfterResult ==
    /\ mq # <<>>
    /\ LET t == Head(mq) IN
       /\ tasks[t].pc = "cq_cls"
       /\ mq' = Tail(mq)
       /\ IF tasks[t].res = "ok"
          THEN /\ items' = [items EXCEPT ![Current(t)].status = "classified",
                                         ![Current(t)].remoteId = Current(t)]
               /\ tasks' = [tasks EXCEPT ![t].pc = "cq_thumb", ![t].res = "none",
                                         ![t].rid = 0]
               /\ UNCHANGED classifyBusy
          ELSE Advance(t, Failed(t, items))
    /\ logged' = Log(IF tasks[Head(mq)].res = "ok" THEN "none"
                     ELSE AdvanceLog(Head(mq), "Failed to classify"))
    /\ escaped' = FALSE
    /\ UNCHANGED <<sessionId, sessionClosed, uploads, conversationDraft, realtimeSocket,
                   micRecorder, micPending, syncTimer, realtimeRequests, timers, sockets,
                   reqs, nextSid, limits, viewer, urls,
                   activeContextId, dictationDraft>>
    /\ UNCHANGED diagramVars
    /\ UNCHANGED utilVars
    /\ UNCHANGED late
    /\ completed' = IF tasks[Head(mq)].res = "ok" THEN Completed(Current(Head(mq)))
                    ELSE completed

\* GET /images/{id}/thumbnail answered
ThumbnailOk(t) ==
    /\ mq = <<>>
    /\ tasks[t].pc = "cq_thumb"
    /\ Advance(t, [items EXCEPT ![Current(t)].thumb = "live"])
    /\ logged' = Log(AdvanceLog(t, "Done"))
    /\ escaped' = FALSE
    /\ UNCHANGED <<sessionId, sessionClosed, uploads, conversationDraft, realtimeSocket,
                   micRecorder, micPending, syncTimer, realtimeRequests, timers, sockets,
                   reqs, mq, nextSid, limits, viewer, urls,
                   activeContextId, dictationDraft>>
    /\ UNCHANGED diagramVars
    /\ UNCHANGED utilVars
    /\ UNCHANGED late
    /\ UNCHANGED completed

\* GET /images/{id}/thumbnail failed: the catch block marks the item
ThumbnailFail(t) ==
    /\ mq = <<>>
    /\ tasks[t].pc = "cq_thumb"
    /\ Advance(t, Failed(t, items))
    /\ logged' = Log(AdvanceLog(t, "Failed to classify"))
    /\ escaped' = FALSE
    /\ UNCHANGED <<sessionId, sessionClosed, uploads, conversationDraft, realtimeSocket,
                   micRecorder, micPending, syncTimer, realtimeRequests, timers, sockets,
                   reqs, mq, nextSid, limits, viewer, urls,
                   activeContextId, dictationDraft>>
    /\ UNCHANGED diagramVars
    /\ UNCHANGED utilVars
    /\ UNCHANGED late
    /\ UNCHANGED completed

\* classifyQueued(false), the Classify button
ClassifyQueued ==
    /\ mq = <<>>
    /\ FreeTasks # {}
    /\ CqEntryPossible
    /\ LET e == CqEntry([NoTask EXCEPT !.kind = "classify"]) IN
       /\ tasks' = [tasks EXCEPT ![NewTask] = e.task]
       /\ sockets' = e.socks
       /\ mq' = IF e.push THEN Append(mq, NewTask) ELSE mq
    /\ logged' = Log(CqEntryLog("none"))
    /\ escaped' = FALSE
    /\ UNCHANGED <<sessionId, sessionClosed, uploads, items, conversationDraft,
                   classifyBusy, realtimeSocket, micRecorder, micPending, syncTimer,
                   realtimeRequests, timers, reqs, nextSid, limits, viewer, urls,
                   activeContextId, dictationDraft>>
    /\ UNCHANGED diagramVars
    /\ UNCHANGED utilVars
    /\ UNCHANGED late
    /\ UNCHANGED completed

\* enqueueImages(files) with n files, then autoClassify() up to its first await
EnqueueImages(n) ==
    /\ mq = <<>>
    /\ FreeTasks # {}
    /\ Cardinality(FreeItems) >= n
    /\ LET first == Min(FreeItems)
           new == [k \in 1..n |-> first + k - 1]
           tk == [NoTask EXCEPT !.kind = "auto", !.item = first]
       IN
       /\ uploads' = uploads \o new
       /\ items' = [i \in ItemIds |-> IF i \in first..(first + n - 1)
                                      THEN [NoItem EXCEPT !.status = "queued", !.preview = "live"]
                                      ELSE items[i]]
       /\ IF sessionId = 0 \/ sessionClosed
          THEN /\ nextSid <= limits.sessions
               /\ tasks' = [tasks EXCEPT ![NewTask] = [tk EXCEPT !.pc = "st_req"]]
               /\ UNCHANGED <<sockets, mq>>
          ELSE /\ CqEntryPossible
               /\ tasks' = [tasks EXCEPT ![NewTask] = CqEntry(tk).task]
               /\ sockets' = CqEntry(tk).socks
               /\ mq' = IF CqEntry(tk).push THEN Append(mq, NewTask) ELSE mq
    /\ logged' = Log("Queued images")
    /\ escaped' = FALSE
    /\ UNCHANGED <<sessionId, sessionClosed, conversationDraft, classifyBusy,
                   realtimeSocket, micRecorder, micPending, syncTimer, realtimeRequests,
                   timers, reqs, nextSid, limits, viewer, urls,
                   activeContextId, dictationDraft>>
    /\ UNCHANGED diagramVars
    /\ UNCHANGED utilVars
    /\ UNCHANGED late
    /\ UNCHANGED completed

\* the filter of removeImage: the items it keeps
KeptIfOther(u, localId) == u # localId
KeptByRemove(u, localId) == u # localId \/ items[u].status = "classified"

\* URL.revokeObjectURL(url) for the dictation URL id (0: no URL, nothing revoked)
RevokeUrl(u, id) ==
    IF id = 0 THEN u
    ELSE [u EXCEPT ![id] = IF @ = "live" THEN "revoked" ELSE "revoked twice"]

\* removeImage(localId)
RemoveImage(localId) ==
    /\ mq = <<>>
    /\ \E k \in 1..Len(uploads) : uploads[k] = localId
    /\ uploads' = SelectSeq(uploads, LAMBDA u : KeptByRemove(u, localId))
    /\ urls' = IF KeptByRemove(localId, localId) THEN urls
               ELSE RevokeUrl(urls, items[localId].dict)
    /\ items' = [items EXCEPT ![localId].removed = ~KeptByRemove(localId, localId)]
    /\ logged' = Log("none")
    /\ escaped' = FALSE
    /\ UNCHANGED <<sessionId, sessionClosed, conversationDraft, classifyBusy,
                   realtimeSocket, micRecorder, micPending, syncTimer, realtimeRequests,
                   timers, sockets, reqs, tasks, mq, nextSid, limits, viewer,
                   activeContextId, dictationDraft>>
    /\ UNCHANGED diagramVars
    /\ UNCHANGED utilVars
    /\ UNCHANGED late
    /\ UNCHANGED completed

\* closeRealtimeSocket(): the sockets after state.realtimeSocket.close()
LocallyClosed ==
    IF IsOpen(sockets, realtimeSocket)
    THEN [sockets EXCEPT ![realtimeSocket].st = "closing"] ELSE sockets

\* `if (state.sessionClosed)` of closeSession
AlreadyClosedIgnored == FALSE
AlreadyClosed == sessionClosed

\* closeSession() up to `await api.closeSession`
CloseSession ==
    /\ mq = <<>>
    /\ IF sessionId = 0 \/ AlreadyClosed
       THEN UNCHANGED tasks
       ELSE /\ FreeTasks # {}
            /\ tasks' = [tasks EXCEPT ![NewTask] =
                             [NoTask EXCEPT !.kind = "close", !.pc = "cl_req"]]
    /\ logged' = Log(IF sessionId = 0 THEN "No active session to close."
                     ELSE IF AlreadyClosed THEN "Session already closed." ELSE "none")
    /\ escaped' = FALSE
    /\ UNCHANGED <<sessionId, sessionClosed, uploads, items, conversationDraft,
                   classifyBusy, realtimeSocket, micRecorder, micPending, syncTimer,
                   realtimeRequests, timers, sockets, reqs, mq, nextSid, limits, viewer, urls,
                   activeContextId, dictationDraft>>
    /\ UNCHANGED diagramVars
    /\ UNCHANGED utilVars
    /\ UNCHANGED late
    /\ UNCHANGED completed

\* the viewer after `if (result.operative_note) opnoteViewer.renderMarkdown(...)`
NoteIgnored(note) == viewer
NoteShown(note) == IF note THEN Rendered("close") ELSE viewer

\* POST /sessions/{id}/close answered: stopLiveMic() and closeRealtimeSocket()
CloseResponseOk(t, note) ==
    /\ mq = <<>>
    /\ tasks[t].pc = "cl_req"
    /\ sessionClosed' = TRUE
    /\ micRecorder' = FALSE
    /\ sockets' = LocallyClosed
    /\ realtimeSocket' = 0
    /\ reqs' = Settled(reqs, RejectedSet)
    /\ timers' = TimersCleared(RejectedSet)
    /\ realtimeRequests' = <<>>
    /\ tasks' = [WakeTasks(tasks, RejectedSet, "closed") EXCEPT ![t] = NoTask]
    /\ mq' = mq \o WokenSeq(RejectedOnClose)
    /\ logged' = Log(LastLog(RejectedOnClose, "closed",
                             IF note THEN "Operative note generated automatically."
                             ELSE "Session closed. Auto generation disabled; use Generate Op Note."))
    /\ escaped' = FALSE
    /\ viewer' = NoteShown(note)
    /\ UNCHANGED <<sessionId, uploads, items, conversationDraft, classifyBusy,
                   micPending, syncTimer, nextSid, limits, urls,
                   activeContextId, dictationDraft>>
    /\ UNCHANGED diagramVars
    /\ UNCHANGED utilVars
    /\ UNCHANGED late
    /\ UNCHANGED completed

\* POST /sessions/{id}/close failed: logged
CloseResponseFail(t) ==
    /\ mq = <<>>
    /\ tasks[t].pc = "cl_req"
    /\ tasks' = [tasks EXCEPT ![t] = NoTask]
    /\ logged' = Log("Failed to close session")
    /\ escaped' = FALSE
    /\ UNCHANGED <<sessionId, sessionClosed, uploads, items, conversationDraft,
                   classifyBusy, realtimeSocket, micRecorder, micPending, syncTimer,
                   realtimeRequests, timers, sockets, reqs, mq, nextSid, limits, viewer, urls,
                   activeContextId, dictationDraft>>
    /\ UNCHANGED diagramVars
    /\ UNCHANGED utilVars
    /\ UNCHANGED late
    /\ UNCHANGED completed

\* `if (!state.sessionClosed)` of generateManualOpnote
NotClosedIgnored == FALSE
NotClosedYet == ~sessionClosed

\* generateManualOpnote() up to `await api.generateOpnote`
GenerateManualOpnote ==
    /\ mq = <<>>
    /\ limits.note
    /\ IF sessionId = 0 \/ NotClosedYet
       THEN UNCHANGED tasks
       ELSE /\ FreeTasks # {}
            /\ tasks' = [tasks EXCEPT ![NewTask] =
                             [NoTask EXCEPT !.kind = "generate", !.pc = "gen_req",
                                            !.sid = sessionId]]
    /\ logged' = Log(IF sessionId = 0
                     THEN "Start and close a session before generating an op note."
                     ELSE IF NotClosedYet
                     THEN "Close the session first so we can use the full conversation."
                     ELSE "none")
    /\ escaped' = FALSE
    /\ UNCHANGED <<sessionId, sessionClosed, uploads, items, conversationDraft,
                   classifyBusy, realtimeSocket, micRecorder, micPending, syncTimer,
                   realtimeRequests, timers, sockets, reqs, mq, nextSid, limits, viewer, urls,
                   activeContextId, dictationDraft>>
    /\ UNCHANGED diagramVars
    /\ UNCHANGED utilVars
    /\ UNCHANGED late
    /\ UNCHANGED completed

\* POST /sessions/{id}/opnote answered: the note is rendered
GenerateResponseOk(t) ==
    /\ mq = <<>>
    /\ tasks[t].pc = "gen_req"
    /\ tasks' = [tasks EXCEPT ![t] = NoTask]
    /\ viewer' = Rendered("generate")
    /\ logged' = Log("Operative note generated on demand.")
    /\ escaped' = FALSE
    /\ UNCHANGED <<sessionId, sessionClosed, uploads, items, conversationDraft,
                   classifyBusy, realtimeSocket, micRecorder, micPending, syncTimer,
                   realtimeRequests, timers, sockets, reqs, mq, nextSid, limits, urls,
                   activeContextId, dictationDraft>>
    /\ UNCHANGED diagramVars
    /\ UNCHANGED utilVars
    /\ UNCHANGED late
    /\ UNCHANGED completed

\* POST /sessions/{id}/opnote failed: logged
GenerateResponseFail(t) ==
    /\ mq = <<>>
    /\ tasks[t].pc = "gen_req"
    /\ tasks' = [tasks EXCEPT ![t] = NoTask]
    /\ logged' = Log("Failed to generate operative note")
    /\ escaped' = FALSE
    /\ UNCHANGED <<sessionId, sessionClosed, uploads, items, conversationDraft,
                   classifyBusy, realtimeSocket, micRecorder, micPending, syncTimer,
                   realtimeRequests, timers, sockets, reqs, mq, nextSid, limits, viewer, urls,
                   activeContextId, dictationDraft>>
    /\ UNCHANGED diagramVars
    /\ UNCHANGED utilVars
    /\ UNCHANGED late
    /\ UNCHANGED completed

\* --------------------------------------------------------- dictation modal
\* saveDictation(localId, dictation), d being dictation.url (0 for null): the
\* object URLs, the items and the console message
SaveDictationUrls(u, localId, d) ==
    IF localId \in {uploads[k] : k \in 1..Len(uploads)}
       /\ items[localId].dict # 0 /\ items[localId].dict # d
    THEN RevokeUrl(u, items[localId].dict) ELSE u
SaveDictationItems(localId, d) ==
    IF localId \in {uploads[k] : k \in 1..Len(uploads)}
    THEN [items EXCEPT ![localId].dict = d] ELSE items
SaveDictationLog(localId, d) ==
    IF localId \notin {uploads[k] : k \in 1..Len(uploads)} THEN "none"
    ELSE IF d # 0 THEN "Captured dictation" ELSE "Cleared dictation"

\* #openDictation(localId): the draft is a copy of the dictation of the item
OpenDictation(localId) ==
    /\ mq = <<>>
    /\ limits.dictate
    /\ activeContextId = 0
    /\ \E k \in 1..Len(uploads) : uploads[k] = localId
    /\ activeContextId' = localId
    /\ dictationDraft' = items[localId].dict
    /\ logged' = Log("none")
    /\ escaped' = FALSE
    /\ UNCHANGED <<sessionId, sessionClosed, uploads, conversationDraft, classifyBusy,
                   realtimeSocket, micRecorder, micPending, syncTimer, realtimeRequests,
                   timers, sockets, reqs, tasks, mq, nextSid, limits, viewer, items, urls>>
    /\ UNCHANGED diagramVars
    /\ UNCHANGED utilVars
    /\ UNCHANGED late
    /\ UNCHANGED completed

\* #handleDictationFile(file), or the onstop handler of a recording: the URL of
\* the draft is revoked and the draft gets a new object URL
NewUrl == Min({u \in DictIds : urls[u] = "unused"})
HandleDictationFile ==
    /\ mq = <<>>
    /\ activeContextId # 0
    /\ \E u \in DictIds : urls[u] = "unused"
    /\ urls' = [RevokeUrl(urls, dictationDraft) EXCEPT ![NewUrl] = "live"]
    /\ dictationDraft' = NewUrl
    /\ logged' = Log("none")
    /\ escaped' = FALSE
    /\ UNCHANGED <<sessionId, sessionClosed, uploads, conversationDraft, classifyBusy,
                   realtimeSocket, micRecorder, micPending, syncTimer, realtimeRequests,
                   timers, sockets, reqs, tasks, mq, nextSid, limits, viewer, items, activeContextId>>
    /\ UNCHANGED diagramVars
    /\ UNCHANGED utilVars
    /\ UNCHANGED late
    /\ UNCHANGED completed

\* the Save button of the dictation modal
DictationSave ==
    /\ mq = <<>>
    /\ activeContextId # 0
    /\ urls' = SaveDictationUrls(urls, activeContextId, dictationDraft)
    /\ items' = SaveDictationItems(activeContextId, dictationDraft)
    /\ activeContextId' = 0
    /\ logged' = Log(SaveDictationLog(activeContextId, dictationDraft))
    /\ escaped' = FALSE
    /\ UNCHANGED <<sessionId, sessionClosed, uploads, conversationDraft, classifyBusy,
                   realtimeSocket, micRecorder, micPending, syncTimer, realtimeRequests,
                   timers, sockets, reqs, tasks, mq, nextSid, limits, viewer, dictationDraft>>
    /\ UNCHANGED diagramVars
    /\ UNCHANGED utilVars
    /\ UNCHANGED late
    /\ UNCHANGED completed

\* the Delete button of the dictation modal
DictationDelete ==
    /\ mq = <<>>
    /\ activeContextId # 0
    /\ urls' = SaveDictationUrls(RevokeUrl(urls, dictationDraft), activeContextId, 0)
    /\ items' = SaveDictationItems(activeContextId, 0)
    /\ dictationDraft' = 0
    /\ activeContextId' = 0
    /\ logged' = Log(SaveDictationLog(activeContextId, 0))
    /\ escaped' = FALSE
    /\ UNCHANGED <<sessionId, sessionClosed, uploads, conversationDraft, classifyBusy,
                   realtimeSocket, micRecorder, micPending, syncTimer, realtimeRequests,
                   timers, sockets, reqs, tasks, mq, nextSid, limits, viewer>>
    /\ UNCHANGED diagramVars
    /\ UNCHANGED utilVars
    /\ UNCHANGED late
    /\ UNCHANGED completed

\* #closeContextModal() from the close button or the backdrop
CloseContextModal ==
    /\ mq = <<>>
    /\ activeContextId # 0
    /\ activeContextId' = 0
    /\ logged' = Log("none")
    /\ escaped' = FALSE
    /\ UNCHANGED <<sessionId, sessionClosed, uploads, conversationDraft, classifyBusy,
                   realtimeSocket, micRecorder, micPending, syncTimer, realtimeRequests,
                   timers, sockets, reqs, tasks, mq, nextSid, limits, viewer, items, urls, dictationDraft>>
    /\ UNCHANGED diagramVars
    /\ UNCHANGED utilVars
    /\ UNCHANGED late
    /\ UNCHANGED completed

\* ------------------------------------------------- conversation, dictation
\* scheduleConversationSync: `if (syncTimer) clearTimeout(syncTimer)` and
\* `syncTimer = setTimeout(...)` leave one timer armed, n being armed before
ScheduledOnTop(n) == n + 1
Rescheduled(n) == 1

\* handleConversationChange(text) and scheduleConversationSync()
ConversationChange(text) ==
    /\ mq = <<>>
    /\ text <= limits.talk
    /\ text # conversationDraft
    /\ conversationDraft' = text
    /\ syncTimer < 2
    /\ syncTimer' = IF sessionId = 0 \/ sessionClosed THEN syncTimer ELSE Rescheduled(syncTimer)
    /\ logged' = Log("none")
    /\ escaped' = FALSE
    /\ UNCHANGED <<sessionId, sessionClosed, uploads, items, classifyBusy,
                   realtimeSocket, micRecorder, micPending, realtimeRequests, timers,
                   sockets, reqs, tasks, mq, nextSid, limits, viewer, urls,
                   activeContextId, dictationDraft>>
    /\ UNCHANGED diagramVars
    /\ UNCHANGED utilVars
    /\ UNCHANGED late
    /\ UNCHANGED completed

\* syncConversation(silent) called outside startSessionInternal
SyncConversationBody(kind) ==
    IF sessionId = 0 \/ conversationDraft = 0
    THEN UNCHANGED <<reqs, realtimeRequests, timers>>
    ELSE SendDetached(kind)

\* its last console message when it is silent
SyncConversationLog ==
    IF sessionId = 0 \/ conversationDraft = 0 \/ CanSend THEN "none"
    ELSE "Failed to sync conversation"

\* the request of syncConversation(false): its caller logs the success too, which
\* tells it from the request of a silent call only where the console is recorded
ManualSyncKind == IF limits.console THEN "sync" ELSE "conv"

\* the debounce timer fires: syncConversation(true)
SyncTimerFire ==
    /\ mq = <<>>
    /\ syncTimer > 0
    /\ syncTimer' = syncTimer - 1
    /\ SyncConversationBody("conv")
    /\ logged' = Log(SyncConversationLog)
    /\ escaped' = FALSE
    /\ UNCHANGED <<sessionId, sessionClosed, uploads, items, conversationDraft,
                   classifyBusy, realtimeSocket, micRecorder, micPending, sockets,
                   tasks, mq, nextSid, limits, viewer, urls,
                   activeContextId, dictationDraft>>
    /\ UNCHANGED diagramVars
    /\ UNCHANGED utilVars
    /\ UNCHANGED late
    /\ UNCHANGED completed

\* the Sync button: syncConversation()
SyncConversation ==
    /\ mq = <<>>
    /\ sessionId # 0 /\ conversationDraft # 0
    /\ SyncConversationBody(ManualSyncKind)
    /\ logged' = Log(SyncConversationLog)
    /\ escaped' = FALSE
    /\ UNCHANGED <<sessionId, sessionClosed, uploads, items, conversationDraft,
                   classifyBusy, realtimeSocket, micRecorder, micPending, syncTimer,
                   sockets, tasks, mq, nextSid, limits, viewer, urls,
                   activeContextId, dictationDraft>>
    /\ UNCHANGED diagramVars
    /\ UNCHANGED utilVars
    /\ UNCHANGED late
    /\ UNCHANGED completed

\* startLiveMic resumed: getUserMedia granted, the recorder starts
MicGranted ==
    /\ mq = <<>>
    /\ micPending > 0
    /\ micPending' = micPending - 1
    /\ micRecorder' = TRUE
    /\ logged' = Log("Live mic streaming to realtime session.")
    /\ escaped' = FALSE
    /\ UNCHANGED <<sessionId, sessionClosed, uploads, items, conversationDraft,
                   classifyBusy, realtimeSocket, syncTimer, realtimeRequests, timers,
                   sockets, reqs, tasks, mq, nextSid, limits, viewer, urls,
                   activeContextId, dictationDraft>>
    /\ UNCHANGED diagramVars
    /\ UNCHANGED utilVars
    /\ UNCHANGED late
    /\ UNCHANGED completed

\* startLiveMic resumed: getUserMedia refused, logged
MicDenied ==
    /\ mq = <<>>
    /\ micPending > 0
    /\ micPending' = micPending - 1
    /\ logged' = Log("Mic capture failed")
    /\ escaped' = FALSE
    /\ UNCHANGED <<sessionId, sessionClosed, uploads, items, conversationDraft,
                   classifyBusy, realtimeSocket, micRecorder, syncTimer,
                   realtimeRequests, timers, sockets, reqs, tasks, mq, nextSid, limits, viewer, urls,
                   activeContextId, dictationDraft>>
    /\ UNCHANGED diagramVars
    /\ UNCHANGED utilVars
    /\ UNCHANGED late
    /\ UNCHANGED completed

\* micRecorder.ondataavailable: one chunk sent as a dictation.audio request
DictationChunk ==
    /\ mq = <<>>
    /\ micRecorder
    /\ CanSend
    /\ SendDetached("dict")
    /\ logged' = Log("none")
    /\ escaped' = FALSE
    /\ UNCHANGED <<sessionId, sessionClosed, uploads, items, conversationDraft,
                   classifyBusy, realtimeSocket, micRecorder, micPending, syncTimer,
                   sockets, tasks, mq, nextSid, limits, viewer, urls,
                   activeContextId, dictationDraft>>
    /\ UNCHANGED diagramVars
    /\ UNCHANGED utilVars
    /\ UNCHANGED late
    /\ UNCHANGED completed

\* ----------------------------------------------------------- specification
Next ==
    \/ StartSession
    \/ \E t \in TaskIds : StartResponseOk(t)
    \/ \E t \in TaskIds : StartResponseFail(t)
    \/ ContinueStartAfterSocket
    \/ ContinueSyncConversation
    \/ ContinueStartAfterSync
    \/ \E n \in 1..2 : EnqueueImages(n)
    \/ \E i \in ItemIds : RemoveImage(i)
    \/ ClassifyQueued
    \/ ContinueClassifyAfterSocket
    \/ \E t \in TaskIds : FileReadOk(t)
    \/ \E t \in TaskIds : FileReadFail(t)
    \/ ContinueClassifyAfterResult
    \/ \E t \in TaskIds : ThumbnailOk(t)
    \/ \E t \in TaskIds : ThumbnailFail(t)
    \/ CloseSession
    \/ \E t \in TaskIds, note \in BOOLEAN : CloseResponseOk(t, note)
    \/ \E t \in TaskIds : CloseResponseFail(t)
    \/ GenerateManualOpnote
    \/ \E t \in TaskIds : GenerateResponseOk(t)
    \/ \E t \in TaskIds : GenerateResponseFail(t)
    \/ \E w \in SockIds : SocketOpen(w)
    \/ \E w \in SockIds : SocketError(w)
    \/ \E w \in SockIds : SocketCloseEvent(w)
    \/ \E w \in SockIds, m \in ReqIds, type \in {"ok", "error"} : SocketMessage(w, m, type)
    \/ \E w \in SockIds, type \in {"ok", "error"} : LateMessage(w, type)
    \/ \E r \in ReqIds : RequestTimeout(r)
    \/ \E text \in 0..MaxTexts : ConversationChange(text)
    \/ SyncTimerFire
    \/ SyncConversation
    \/ MicGranted
    \/ MicDenied
    \/ DictationChunk
    \/ \E i \in ItemIds : OpenDictation(i)
    \/ HandleDictationFile
    \/ DictationSave
    \/ DictationDelete
    \/ CloseContextModal

Spec == Init /\ [][Next]_vars

\* Every backend exchange eventually responds, fails or times out, every file
\* read and every connection attempt ends, a locally closed or failed socket
\* gets its close event, and a resumed async function runs.  The user and the
\* peer are under no obligation.
Fairness ==
    /\ WF_vars(ContinueStartAfterSocket)
    /\ WF_vars(ContinueSyncConversation)
    /\ WF_vars(ContinueStartAfterSync)
    /\ WF_vars(ContinueClassifyAfterSocket)
    /\ WF_vars(ContinueClassifyAfterResult)
    /\ \A t \in TaskIds :
          /\ WF_vars(StartResponseOk(t) \/ StartResponseFail(t))
          /\ WF_vars(FileReadOk(t) \/ FileReadFail(t))
          /\ WF_vars(ThumbnailOk(t) \/ ThumbnailFail(t))
          /\ WF_vars(CloseResponseFail(t) \/ \E note \in BOOLEAN : CloseResponseOk(t, note))
    /\ \A w \in SockIds :
          /\ WF_vars(SocketOpen(w) \/ SocketError(w))
          /\ WF_vars(sockets[w].st \in {"closing", "failed"} /\ SocketCloseEvent(w))
    /\ \A r \in ReqIds :
          WF_vars(RequestTimeout(r)
                  \/ \E w \in SockIds, type \in {"ok", "error"} : SocketMessage(w, r, type))

SpecFair == Spec /\ Fairness

\* label lookup alone: a mapping and a label are given, then normalized
NextLabels ==
    \/ Normalize
    \/ Renormalize
    \/ NormalizeCanonical

SpecLabels == InitLabels /\ [][NextLabels]_vars

\* the diagram alone: mapping, uploads, layout changes and lightbox use
NextDiagram ==
    \/ \E m \in DiagramMappings : SetMapping(m)
    \/ \E uploaded \in UploadLists : SetImages(uploaded)
    \/ \E size \in StageSizes : UpdateOverlay(size[1], size[2])
    \/ \E id \in 1..MaxImages : OpenLightbox(id)
    \/ CloseLightbox
    \/ \E delta \in {1, -1} : StepLightbox(delta)

SpecDiagram == InitDiagram /\ [][NextDiagram]_vars

\* the context text alone: a draft and a documentation, then the request
NextContext == BuildPayload

SpecContext == InitContext /\ [][NextContext]_vars

\* the encoder alone: a rendered buffer, then its WAV bytes
NextWav == ConvertToWav

SpecWav == InitWav /\ [][NextWav]_vars

\* ------------------------------------------------------------------ claims
Range(q) == {q[k] : k \in 1..Len(q)}
Types == {"ok", "error"}
BatchPcs == {"cq_read", "cq_cls", "cq_thumb"}

\* C1: a response settles only the promise of the request whose request_id it
\* echoes: in a step that handles a message with request_id m, no pending promise
\* other than m is settled and no task other than the one awaiting m is resumed.
C1_NoCrossDelivery ==
    [][\A w \in SockIds, m \in ReqIds, type \in Types :
          SocketMessage(w, m, type) =>
              /\ \A p \in ReqIds \ {m} : reqs'[p] = reqs[p] /\ (p \in PendingIds <=> p \in PendingIds')
              /\ \A t \in TaskIds : tasks'[t] # tasks[t] => tasks[t].rid = m]_vars

\* C1 witness: a classify response was delivered to the batch awaiting it while a
\* conversation or dictation request is still outstanding on the connection.
C1_Witness ==
    \E t \in TaskIds, r \in ReqIds :
        /\ tasks[t].pc = "cq_cls" /\ tasks[t].res = "ok"
        /\ r \in PendingIds /\ reqs[r].kind \in {"conv", "dict"}

\* a step in which the realtime connection closes
CloseStep == (\E w \in SockIds : SocketCloseEvent(w)) \/ (\E t \in TaskIds, note \in BOOLEAN : CloseResponseOk(t, note))

\* C2: when the connection closes (close event or closeRealtimeSocket), every
\* request pending at that moment is rejected with the connection-closed error
\* and the pending set is empty afterwards.
C2_CloseRejectsAll ==
    [][CloseStep =>
          /\ realtimeRequests' = <<>>
          /\ \A p \in PendingIds :
                /\ reqs'[p] = NoReq
                /\ \A t \in TaskIds :
                      (tasks[t].rid = p /\ tasks[t].res = "none" /\ tasks[t].pc \in {"st_sync", "cq_cls"})
                          => tasks'[t].res = "closed"]_vars

\* C2 witness: a batch was resumed with the connection-closed rejection.
C2_Witness == \E t \in TaskIds : tasks[t].pc = "cq_cls" /\ tasks[t].res = "closed"

\* C3: when the timer of a pending request expires, the request is rejected with
\* the timeout error and its entry leaves the pending set in that step.
C3_TimeoutRejects ==
    [][\A r \in ReqIds :
          RequestTimeout(r) =>
              /\ r \in PendingIds
              /\ r \notin PendingIds'
              /\ reqs'[r] = NoReq
              /\ r \notin timers'
              /\ \A t \in TaskIds :
                    (tasks[t].rid = r /\ tasks[t].res = "none" /\ tasks[t].pc \in {"st_sync", "cq_cls"})
                        => tasks'[t].res = "timeout"]_vars

\* C3 witness: a task was resumed with the timeout rejection.
C3_Witness == \E t \in TaskIds : tasks[t].res = "timeout"

\* C4: the expiry of one request's timer leaves every other pending request
\* pending with its timer armed, and leaves the connection as it is.
C4_TimeoutFrame ==
    [][\A r \in ReqIds :
          RequestTimeout(r) =>
              /\ \A p \in PendingIds \ {r} :
                    p \in PendingIds' /\ reqs'[p] = reqs[p] /\ (p \in timers => p \in timers')
              /\ \A t \in TaskIds : tasks'[t] # tasks[t] => tasks[t].rid = r
              /\ sockets' = sockets
              /\ realtimeSocket' = realtimeSocket]_vars

\* C4 witness: a request timed out while another one is pending with its timer
\* armed on the open connection.
C4_Witness ==
    /\ \E t \in TaskIds : tasks[t].res = "timeout"
    /\ \E p \in PendingIds : p \in timers
    /\ CanSend

\* C5: at most one realtime connection is open at any time.
C5_AtMostOneOpen == Cardinality({w \in SockIds : sockets[w].st = "open"}) <= 1

\* the state in which startSessionInternal of task t is about to return normally
StartCompletes(t) ==
    /\ mq # <<>> /\ Head(mq) = t
    /\ \/ tasks[t].pc = "st_sock" /\ tasks[t].res = "ok" /\ conversationDraft = 0
       \/ tasks[t].pc = "st_sync2"

\* C6: when a start completes, the open connection is one that was opened for
\* the session id this start obtained.
C6_ConnectionOfNewSession ==
    \A t \in TaskIds :
        (StartCompletes(t) /\ IsOpen(sockets, realtimeSocket))
            => sockets[realtimeSocket].sid = tasks[t].sid

\* idle, live or closed
Phase == IF sessionId = 0 THEN "idle" ELSE IF sessionClosed THEN "closed" ELSE "live"

\* C7: the lifecycle follows idle -> live -> closed -> live: the closed flag
\* becomes true only through a successful close of a live session, the session
\* id changes only through a successful start, which yields a live session with
\* a new id and the closed flag reset, and the session id never becomes null again.
C7_Lifecycle ==
    [][/\ (~sessionClosed /\ sessionClosed') =>
              (\E t \in TaskIds, note \in BOOLEAN : CloseResponseOk(t, note)) /\ sessionId # 0 /\ sessionId' = sessionId
       /\ (sessionId' # sessionId) => \E t \in TaskIds : StartResponseOk(t)
       /\ \A t \in TaskIds : StartResponseOk(t) =>
              sessionId' # 0 /\ sessionId' > sessionId /\ ~sessionClosed'
       /\ sessionId # 0 => sessionId' # 0
       /\ <<Phase, Phase'>> \in {<<"idle", "idle">>, <<"idle", "live">>, <<"live", "live">>,
                                 <<"live", "closed">>, <<"closed", "closed">>,
                                 <<"closed", "live">>}]_vars

\* C7 witness: a second successful start gave the session id 2, and that session
\* was closed by a successful close.
C7_Witness == sessionId = 2 /\ sessionClosed /\ nextSid = 3

\* C8: at most one image.classify request is in flight at any time, and at most
\* one batch is running.
C8_OneClassifyInFlight ==
    /\ Cardinality({r \in PendingIds : reqs[r].kind = "classify"}) <= 1
    /\ Cardinality({t \in TaskIds : tasks[t].pc \in BatchPcs}) <= 1

\* C8 witness: a second trigger reaches the busy check while a batch has a
\* classify request in flight and an image is queued.
C8_Witness ==
    /\ mq # <<>> /\ tasks[Head(mq)].pc = "cq_sock" /\ tasks[Head(mq)].res = "ok"
    /\ classifyBusy
    /\ QueuedOf(uploads) # <<>>
    /\ \E r \in PendingIds : reqs[r].kind = "classify"

\* a step in which the batch of task t ends
BatchEnds(t) == tasks[t].pc \in BatchPcs /\ tasks'[t].kind = "none"

\* C9 as claimed: when a batch ends, every item of the batch is classified or
\* error and was sent for classification exactly once.
C9_SentExactlyOnce ==
    [][\A t \in TaskIds : BatchEnds(t) =>
          \A i \in Range(tasks[t].pend) :
              items'[i].status \in {"classified", "error"} /\ items'[i].sent = 1]_vars

\* C9 amended: when a batch ends, every item of the batch is classified or error
\* (none skipped, whatever happened to the items before it), a classified item
\* was sent exactly once and an error item at most once.
C9_ProcessedOnce ==
    [][\A t \in TaskIds : BatchEnds(t) =>
          \A i \in Range(tasks[t].pend) :
              /\ items'[i].status \in {"classified", "error"}
              /\ items'[i].status = "classified" => items'[i].sent = 1
              /\ items'[i].sent <= 1]_vars

\* C9 witness: no batch is running, the first image failed and the second one,
\* enqueued with it, was sent and classified.
C9_Witness ==
    /\ ~classifyBusy
    /\ \E i, j \in ItemIds :
          /\ i < j
          /\ items[i].status = "error"
          /\ items[j].status = "classified" /\ items[j].sent = 1

\* C10: when the auto-started session of autoClassify is ready and the task
\* reaches the selection of the queued images, the image whose enqueue started
\* it is in the queue to be sent, unless a batch took it already.
C10_AutoStartedImageSent ==
    \A t \in TaskIds :
        (/\ tasks[t].kind = "auto" /\ tasks[t].sid # 0
         /\ tasks[t].pc = "cq_sock" /\ tasks[t].res = "ok"
         /\ mq # <<>> /\ Head(mq) = t)
            => \/ tasks[t].item \in Range(QueuedOf(uploads))
               \/ items[tasks[t].item].status # "queued"

\* the step in which the auto-start of task t fails: POST /sessions failed, or
\* the WebSocket of the new session could not be opened
AutoStartFails(t) ==
    /\ tasks[t].kind = "auto"
    /\ \/ StartResponseFail(t)
       \/ /\ mq # <<>> /\ Head(mq) = t
          /\ tasks[t].pc = "st_sock" /\ tasks[t].res # "ok"
          /\ ContinueStartAfterSocket

\* C11: when an auto-start fails, the image whose enqueue triggered it (which the
\* user did not remove, no other session having been created meanwhile) is still
\* in the queue with status queued, was never sent, and an error is on the console.
C11_AutoStartFailureKeepsQueue ==
    [][\A t \in TaskIds :
          (/\ AutoStartFails(t)
           /\ ~items[tasks[t].item].removed
           /\ nextSid = tasks[t].sid + 1)
              => /\ tasks[t].item \in Range(QueuedOf(uploads'))
                 /\ items'[tasks[t].item].sent = 0
                 /\ limits.console => logged' \in ErrorMessages]_vars

\* C12: removeImage(localId) keeps every classified item and every item with
\* another localId, in their order, removes the item localId if it is not
\* classified, and changes the status and result of no item.
C12_RemoveOnlyUnclassified ==
    [][\A l \in ItemIds :
          RemoveImage(l) =>
              /\ \A u \in Range(uploads) :
                    (u # l \/ items[u].status = "classified") <=> u \in Range(uploads')
              /\ uploads' = SelectSeq(uploads, LAMBDA u : u \in Range(uploads'))
              /\ \A i \in ItemIds :
                    /\ items'[i].status = items[i].status
                    /\ items'[i].remoteId = items[i].remoteId
                    /\ items'[i].sent = items[i].sent]_vars

\* C12 witness: an item was removed from a queue that holds a classified item.
C12_Witness ==
    \E i, j \in ItemIds :
        /\ items[i].status = "classified" /\ i \in Range(uploads)
        /\ items[j].removed /\ j \notin Range(uploads)

\* C13: generateManualOpnote called while no session exists or the session is not
\* closed starts no generate request and changes nothing but the console, which
\* gets a guidance message.
C13_GenerateRefused ==
    [][(GenerateManualOpnote /\ (sessionId = 0 \/ ~sessionClosed)) =>
          /\ UNCHANGED <<sessionId, sessionClosed, uploads, items, conversationDraft,
                         classifyBusy, realtimeSocket, micRecorder, micPending, syncTimer,
                         realtimeRequests, timers, sockets, reqs, tasks, mq, nextSid,
                         viewer>>
          /\ ~escaped'
          /\ limits.console =>
                logged' \in {"Start and close a session before generating an op note.",
                             "Close the session first so we can use the full conversation."}]_vars

\* C13 witness: the Generate button was used on a live session.
C13_Witness ==
    /\ sessionId # 0 /\ ~sessionClosed
    /\ logged = "Close the session first so we can use the full conversation."

\* C14: closeSession called while no session was started or the session is
\* already closed sends no close request and changes nothing but the console,
\* which gets an informational message.
C14_CloseNoOp ==
    [][(CloseSession /\ (sessionId = 0 \/ sessionClosed)) =>
          /\ UNCHANGED <<sessionId, sessionClosed, uploads, items, conversationDraft,
                         classifyBusy, realtimeSocket, micRecorder, micPending, syncTimer,
                         realtimeRequests, timers, sockets, reqs, tasks, mq, nextSid,
                         viewer>>
          /\ ~escaped'
          /\ limits.console => logged' \in InfoMessages]_vars

\* C14 witness: the Close button was used on a closed session.
C14_Witness == sessionClosed /\ logged = "Session already closed."

\* C15: a successful close marks the session closed, leaves no recorder and no
\* open realtime connection; a failed close leaves session, connection and
\* microphone as they were.
C15_CloseEffects ==
    [][/\ \A t \in TaskIds, note \in BOOLEAN :
             CloseResponseOk(t, note) =>
                 /\ sessionClosed'
                 /\ ~micRecorder'
                 /\ realtimeSocket' = 0
                 /\ \A w \in SockIds : sockets'[w].st # "open"
       /\ \A t \in TaskIds :
             CloseResponseFail(t) =>
                 UNCHANGED <<sessionId, sessionClosed, realtimeSocket, sockets,
                             micRecorder, micPending, realtimeRequests>>]_vars

\* C16: a close response with an operative note makes the viewer show that note,
\* one without a note renders nothing, and neither starts a generate request.
C16_NoteFromClose ==
    [][\A t \in TaskIds, note \in BOOLEAN :
          (CloseResponseOk(t, note) /\ limits.note) =>
              /\ note => viewer' = "close"
              /\ ~note => viewer' = viewer
              /\ \A u \in TaskIds : tasks'[u].kind = "generate" => tasks[u].kind = "generate"]_vars

\* C16 witness: the session is closed and the viewer shows the note of the close
\* response.
C16_Witness ==
    /\ sessionClosed /\ viewer = "close"
    /\ logged = "Operative note generated automatically."
    /\ \A u \in TaskIds : tasks[u].kind # "generate"

\* C18: no step ends in a promise rejection that nothing handles.
C18_NothingEscapes == ~escaped

\* C17: every object URL is revoked exactly once when its owner goes: an item
\* that left the queue has no live preview, thumbnail or dictation URL, no URL is
\* revoked twice, and every live dictation URL belongs to an item of the queue or
\* to the draft of the open modal.
C17_UrlsRevokedOnce ==
    /\ \A i \in ItemIds :
          (items[i].status # "none" /\ i \notin Range(uploads)) =>
              /\ items[i].preview # "live"
              /\ items[i].thumb # "live"
              /\ items[i].dict # 0 => urls[items[i].dict] # "live"
    /\ \A u \in DictIds :
          /\ urls[u] # "revoked twice"
          /\ urls[u] = "live" =>
                \/ \E i \in Range(uploads) : items[i].dict = u
                \/ activeContextId # 0 /\ dictationDraft = u

\* the location ids of a mapping are lower-case slugs that the alias table
\* does not list as spellings, and no entry is keyed or named "unlabeled"
WellFormed(m) ==
    /\ \A k \in Keys(m) : k = Slug(k) /\ k \notin AliasNames
    /\ Unlabeled \notin Keys(m) \cup DisplayNames(m)

\* C19 as stated: normalizing the key produced by normalizing a label gives
\* the same result as normalizing the label, for every label and mapping.
C19_Idempotent == renormalized # NoResult => renormalized = normalized

\* C19 amended: under a mapping whose location ids are lower-case slugs that
\* are neither alias spellings nor "unlabeled" (and that names no entry
\* "unlabeled"), normalizing the key produced by normalizing a label gives the
\* same key, coords and group as normalizing the label; the display name is
\* the same too when the label matched an entry of the mapping.
C19_KeyIdempotent ==
    (renormalized # NoResult /\ WellFormed(mapping)) =>
        /\ renormalized.key = normalized.key
        /\ renormalized.coords = normalized.coords
        /\ renormalized.group = normalized.group
        /\ normalized.coords # NoCoords => renormalized = normalized

\* a label that matched an entry through another spelling than its key has
\* had its key fed back
C19_Witness ==
    /\ renormalized # NoResult
    /\ WellFormed(mapping)
    /\ normalized.coords # NoCoords
    /\ normalized.key # ToLowerCase(Trim(label))

\* C20: an alias, in any letter case and with any surrounding blanks, gets the
\* same key as the canonical key the alias table gives it.
C20_AliasSameBucket ==
    (normalized # NoResult /\ canonical # NoResult) => normalized.key = canonical.key

\* the four stages of label matching, each alone: the key of the mapping
\* entry the stage finds for a lower-cased trimmed label, NoMatch if none
AliasStage(m, l) ==
    IF l \in AliasNames /\ AliasKey(l) \in Keys(m) THEN AliasKey(l) ELSE NoMatch
DirectStage(m, l) == IF l \in Keys(m) THEN l ELSE NoMatch
DisplayStage(m, l) ==
    IF l \in DisplayNames(m) THEN DisplayNameIndex(m, l) ELSE NoMatch
SlugStage(m, l) ==
    IF Slug(l) # <<>> /\ Slug(l) \in Keys(m) THEN Slug(l) ELSE NoMatch
Stages(m, l) == <<AliasStage(m, l), DirectStage(m, l), DisplayStage(m, l), SlugStage(m, l)>>
Succeeded(m, l) == {i \in 1..4 : Stages(m, l)[i] # NoMatch}
FirstStage(m, l) == CHOOSE i \in Succeeded(m, l) : \A j \in Succeeded(m, l) : i <= j

\* C28: a label is resolved by the first of the stages alias table, direct
\* key, display-name index, slug that finds an entry of the mapping, never by
\* a later one; a non-empty label that no stage resolves gets its lower-cased
\* trimmed text as key and no coords, an empty one the key "unlabeled".
C28_FirstStageWins ==
    normalized # NoResult =>
        LET cleaned == Trim(label)
            l == ToLowerCase(cleaned)
        IN  IF Succeeded(mapping, l) # {}
            THEN /\ normalized.key = Stages(mapping, l)[FirstStage(mapping, l)]
                 /\ normalized.coords = Coords(mapping, normalized.key)
            ELSE IF cleaned # <<>>
            THEN normalized.key = l /\ normalized.coords = NoCoords
            ELSE normalized.key = Unlabeled /\ normalized.coords = NoCoords

\* a label that two stages resolve to different entries has been normalized
C28_Witness ==
    /\ normalized # NoResult
    /\ \E i, j \in Succeeded(mapping, ToLowerCase(Trim(label))) :
          /\ i < j
          /\ Stages(mapping, ToLowerCase(Trim(label)))[i]
               # Stages(mapping, ToLowerCase(Trim(label)))[j]

\* a label is a variant of the location k: its lower-cased trimmed text is k,
\* an alias of k, or differs from k in punctuation only
VariantOf(l, k) ==
    LET low == ToLowerCase(Trim(l))
    IN  \/ low = k
        \/ low \in AliasNames /\ AliasKey(low) = k
        \/ Slug(low) = k
Places(img) ==
    {<<b, j>> \in (DOMAIN markers) \X (1..MaxImages) :
        j \in DOMAIN markers[b].items /\ markers[b].items[j] = img}

\* C21: after a render that builds markers every classified image is in
\* exactly one bucket, there are as many buckets as distinct normalized keys,
\* and two images whose labels are variants of one location of the mapping
\* are in the same bucket, which has the key and the coords of that location.
C21_BucketsByKey ==
    markers # <<>> =>
        /\ \A i \in DOMAIN images : Cardinality(Places(images[i])) = 1
        /\ Len(markers)
             = Cardinality({NormalizeLabel(mapping, images[i].label).key : i \in DOMAIN images})
        /\ \A i, j \in DOMAIN images : \A k \in Keys(mapping) :
              (VariantOf(images[i].label, k) /\ VariantOf(images[j].label, k)) =>
                  \E b \in DOMAIN markers :
                      /\ Places(images[i]) \cup Places(images[j]) \subseteq {b} \X (1..MaxImages)
                      /\ markers[b].key = k
                      /\ markers[b].coords = Coords(mapping, k)

\* "Z-line" and "z line" are rendered in one bucket next to another bucket
C21_Witness ==
    /\ Len(markers) = 2
    /\ \E b \in DOMAIN markers :
          /\ Len(markers[b].items) = 2
          /\ markers[b].items[1].label # markers[b].items[2].label

\* C22: with n > 0 images, after any step of the lightbox the index lies in
\* [0, n), and it is back at the index the run of steps started from after n
\* steps in one direction and after a step followed by the opposite step
\* (whenever the steps forward and the steps back differ by 0 or by n).
C22_CircularSteps ==
    (Len(images) > 0 /\ runSteps > 0) =>
        /\ activeIndex \in 0..(Len(images) - 1)
        /\ runLen \in {0, Len(images), 0 - Len(images)} => activeIndex = runStart

\* a step in which render is requested from outside: setMapping or setImages
RenderRequested ==
    \/ \E m \in DiagramMappings : SetMapping(m)
    \/ \E uploaded \in UploadLists : SetImages(uploaded)

\* C29: a render requested while the mapping is loaded and the layout has no
\* measurable size (_layoutReady is false) creates no markers and sets the pending flag; the step in
\* which the layout becomes ready with the flag set runs the deferred render
\* once and clears the flag, updateOverlay renders in no other step, and the
\* flag is never set while the layout is ready.
C29_DeferredRender ==
    [][/\ (RenderRequested /\ mappingLoaded' /\ ~layoutReady) =>
              (markers' = <<>> /\ pendingRender' /\ deferred' = 0)
       /\ (pendingRender /\ ~layoutReady /\ layoutReady') =>
              /\ deferred' = 1
              /\ ~pendingRender'
              /\ markers' = IF images = <<>> THEN <<>> ELSE BuildMarkers(mapping, images, <<>>)
       /\ deferred' = 1 => (pendingRender /\ ~layoutReady /\ layoutReady')
       /\ pendingRender' => ~layoutReady']_vars

\* the deferred render has just run and built markers
C29_Witness == deferred = 1 /\ markers # <<>> /\ ~pendingRender /\ layoutReady

\* C23: a response that arrives after its request has timed out settles no
\* promise, changes no pending entry and no timer, resumes no task, raises no
\* exception, and is logged.
C23_LateResponseLogged ==
    [][\A w \in SockIds, type \in Types :
          LateMessage(w, type) =>
              /\ UNCHANGED <<reqs, realtimeRequests, timers, tasks, mq>>
              /\ ~escaped'
              /\ logged' # "none"]_vars

\* C25: a message whose request_id has a pending entry removes the entry and
\* its timer and settles its promise, rejected with the server's detail when
\* the type is "error" and resolved otherwise; a message that has no pending
\* entry settles no promise, resumes no task and throws nothing.
C25_MessageSettles ==
    [][/\ \A w \in SockIds, m \in ReqIds, type \in Types :
              (SocketMessage(w, m, type) /\ m \in PendingIds) =>
                  /\ m \notin PendingIds'
                  /\ m \notin timers'
                  /\ reqs'[m] = NoReq
                  /\ \A t \in Woken({m}) :
                        tasks'[t].res = IF type = "error" THEN "server" ELSE "ok"
                  /\ ~escaped'
       /\ \A w \in SockIds, type \in Types :
              LateMessage(w, type) =>
                  /\ UNCHANGED <<reqs, realtimeRequests, timers, tasks, mq>>
                  /\ ~escaped']_vars

\* an error message has rejected the promise a task awaits
C25_Witness == \E t \in TaskIds : tasks[t].res = "server"

\* the position of item i in the sequence q
Pos(q, i) == CHOOSE k \in 1..Len(q) : q[k] = i

\* C26: a batch takes its items in the order of the upload queue and sends
\* the classify request of an item only when every earlier item of the batch
\* has finished (is classified with its thumbnail fetch over, or is error) and
\* no classify request and no thumbnail fetch of the batch is outstanding.
C26_SequentialBatch ==
    [][\A t \in TaskIds :
          /\ (tasks[t].pc = "cq_sock" /\ tasks'[t].pc = "cq_read") =>
                /\ tasks'[t].idx = 1
                /\ Range(tasks'[t].pend) = {i \in Range(uploads) : items[i].status = "queued"}
                /\ \A a, b \in 1..Len(tasks'[t].pend) :
                      a < b => Pos(uploads, tasks'[t].pend[a]) < Pos(uploads, tasks'[t].pend[b])
          /\ (tasks[t].pc \in BatchPcs /\ tasks'[t].pc \in BatchPcs) =>
                /\ tasks'[t].pend = tasks[t].pend
                /\ tasks'[t].idx \in {tasks[t].idx, tasks[t].idx + 1}
          /\ (FileReadOk(t) /\ items' # items) =>
                /\ items'[tasks[t].pend[tasks[t].idx]].sent
                     = items[tasks[t].pend[tasks[t].idx]].sent + 1
                /\ \A j \in 1..(tasks[t].idx - 1) :
                      items[tasks[t].pend[j]].status \in {"classified", "error"}
                /\ \A r \in PendingIds : reqs[r].kind # "classify"
                /\ \A u \in TaskIds : tasks[u].pc # "cq_thumb"]_vars

\* the second item of a batch has been sent after the first one finished
C26_Witness ==
    \E t \in TaskIds :
        /\ tasks[t].pc = "cq_cls" /\ tasks[t].idx = 2 /\ tasks[t].rid \in PendingIds
        /\ items[tasks[t].pend[2]].sent = 1
        /\ items[tasks[t].pend[1]].status = "classified"

\* C27: an upload item has a remoteId only if its status is classified.
C27_RemoteIdOnlyClassified ==
    \A i \in ItemIds : items[i].remoteId # 0 => items[i].status = "classified"

\* a text is present when something is left after trimming
HasText(t) == Trim(t) # <<>>
DraftPresent == HasText(draftText)
NotePresent == documentation.saved /\ HasText(documentation.text)
HintSent == payload # NoPayload

\* C30, as stated: the text_hint of a classify request is the draft and
\* the documentation text, each only when present, with a blank line
\* between them, and the empty string when neither is present.
C30_PlainConcatenation ==
    HintSent =>
        payload.text_hint =
            CASE DraftPresent /\ NotePresent ->
                     Trim(draftText) \o BlankLine \o Trim(documentation.text)
              [] DraftPresent /\ ~NotePresent -> Trim(draftText)
              [] ~DraftPresent /\ NotePresent -> Trim(documentation.text)
              [] OTHER -> <<>>

\* C30, amended: the text_hint of a classify request is the trimmed draft
\* and the trimmed documentation text behind the words "Image note: ",
\* each only when present, with a blank line between them when both are,
\* and the empty string when neither is present.
C30_LabelledConcatenation ==
    HintSent =>
        payload.text_hint =
            CASE DraftPresent /\ NotePresent ->
                     Trim(draftText) \o BlankLine \o ImageNote \o Trim(documentation.text)
              [] DraftPresent /\ ~NotePresent -> Trim(draftText)
              [] ~DraftPresent /\ NotePresent -> ImageNote \o Trim(documentation.text)
              [] OTHER -> <<>>
C30_Witness ==
    /\ HintSent
    /\ DraftPresent
    /\ NotePresent
    /\ draftText # Trim(draftText)

\* the header fields of a WAV file, read back from its bytes
GetUint16(bytes, offset) == bytes[offset + 1] + 256 * bytes[offset + 2]
GetUint32(bytes, offset) ==
    bytes[offset + 1] + 256 * bytes[offset + 2]
    + 65536 * bytes[offset + 3] + 16777216 * bytes[offset + 4]
Encoded == wav # <<>>
Frames == Len(audioBuffer.channelData[1])

\* C24: the encoding of a buffer of c channels, rate r and L frames has
\* 44 + 2*c*L bytes, and its header says NumChannels c, SampleRate r,
\* BitsPerSample 16, BlockAlign 2*c, ByteRate r*2*c, RIFF size 36 + 2*c*L
\* and data size 2*c*L; one second of mono audio at 48000 Hz has
\* 44 + 48000*2 bytes, ByteRate 96000 and BlockAlign 2.
C24_WavLayout ==
    Encoded =>
        LET c == audioBuffer.numberOfChannels
            r == audioBuffer.sampleRate
            L == Frames
        IN  /\ Len(wav) = 44 + 2 * c * L
            /\ GetUint16(wav, 22) = c
            /\ GetUint32(wav, 24) = r
            /\ GetUint16(wav, 34) = 16
            /\ GetUint16(wav, 32) = 2 * c
            /\ GetUint32(wav, 28) = r * 2 * c
            /\ GetUint32(wav, 4) = 36 + 2 * c * L
            /\ GetUint32(wav, 40) = 2 * c * L
            /\ (c = 1 /\ r = 48000 /\ L = 48000) =>
                   /\ Len(wav) = 44 + 48000 * 2
                   /\ GetUint32(wav, 28) = 96000
                   /\ GetUint16(wav, 32) = 2
C24_Witness ==
    /\ Encoded
    /\ audioBuffer.numberOfChannels = 2
    /\ Frames >= 2

\* C40: the armed request timers are exactly the timers of the pending
\* entries: a request has an armed timer if and only if it has an entry in
\* realtimeRequests, so a settled request has no timer left to fire.
C40_TimersMatchPending ==
    /\ timers = PendingIds
    /\ \A r \in ReqIds : reqs[r].kind # "none" <=> r \in PendingIds

\* C40 witness: one request was settled by a timeout, as the task awaiting it
\* shows, while another is pending with its timer armed.
C40_Witness ==
    /\ \E t \in TaskIds : tasks[t].res = "timeout" /\ tasks[t].rid \notin PendingIds
    /\ \E p \in PendingIds : p \in timers

\* no connection is open: state.realtimeSocket is null or not in readyState OPEN
Unconnected == realtimeSocket = 0 \/ sockets[realtimeSocket].st # "open"

\* the pending set and the timers are as they were
NothingRegistered == UNCHANGED <<reqs, realtimeRequests, timers>>

\* C33: sendRealtimeRequest called while no connection is open rejects at once
\* with the not-connected error, adds no entry to realtimeRequests and arms no
\* timer: an awaiting caller is resumed with that error in the same step, and
\* syncConversation logs the failure.
C33_NotConnectedRejects ==
    [][Unconnected =>
          /\ \A t \in TaskIds :
                FileReadOk(t) =>
                    /\ NothingRegistered
                    /\ tasks'[t].res = "notconn"
                    /\ mq' = Append(mq, t)
          /\ (ContinueStartAfterSocket /\ tasks[Head(mq)].res = "ok" /\ conversationDraft # 0) =>
                    /\ NothingRegistered
                    /\ tasks'[Head(mq)].res = "notconn"
                    /\ Head(mq) \in Range(mq')
          /\ ((SyncTimerFire \/ SyncConversation) /\ sessionId # 0 /\ conversationDraft # 0) =>
                    /\ NothingRegistered
                    /\ limits.console => logged' = "Failed to sync conversation"]_vars

\* C33 witness: a batch was resumed with the not-connected error and nothing
\* is pending.
C33_Witness ==
    /\ \E t \in TaskIds : tasks[t].pc = "cq_cls" /\ tasks[t].res = "notconn"
    /\ Unconnected
    /\ realtimeRequests = <<>> /\ timers = {}

\* C34: whenever the session is closed, no realtime connection is open and
\* state.realtimeSocket is null.
C34_ClosedMeansDisconnected ==
    sessionClosed =>
        /\ realtimeSocket = 0
        /\ \A w \in SockIds : sockets[w].st # "open"

\* C36: enqueues that arrive while no live session exists issue at most one
\* session-start request: at most one autoClassify waits for POST /sessions.
C36_OneAutoStart ==
    Cardinality({t \in TaskIds : tasks[t].kind = "auto" /\ tasks[t].pc = "st_req"}) <= 1

\* C37: an item that removeImage took out of the queue is never sent for
\* classification afterwards.
C37_RemovedNeverSent ==
    [][\A i \in ItemIds : items[i].removed => items'[i].sent = items[i].sent]_vars

\* C38: the close event of a connection rejects only the requests that were
\* sent on it: every request sent on another connection stays pending.
C38_CloseRejectsOwnRequests ==
    [][\A w \in SockIds :
          SocketCloseEvent(w) =>
              \A p \in PendingIds :
                  reqs[p].sock # w => p \in PendingIds' /\ reqs'[p] = reqs[p]]_vars

\* C39: the object URL of the dictation of an item of the queue is never
\* revoked while the item refers to it.
C39_ReferencedUrlLive ==
    \A i \in Range(uploads) : items[i].dict # 0 => urls[items[i].dict] = "live"

\* the session is live: started and not closed
Live == sessionId # 0 /\ ~sessionClosed

\* C35: every image in the queue of a live session eventually leaves status
\* queued (or leaves the queue, or the session ends), the user doing nothing
\* more, also when it was enqueued while a batch was running.
C35_QueuedEventuallyProcessed ==
    \A i \in ItemIds :
        (Live /\ i \in Range(uploads) /\ items[i].status = "queued")
            ~> (~Live \/ i \notin Range(uploads) \/ items[i].status # "queued")

\* the label the backend gives item i: two spellings of one location
ResultLabel(i) ==
    IF i % 2 = 1 THEN <<"Z", "-", "l", "i", "n", "e">> ELSE <<"z", " ", "l", "i", "n", "e">>

\* diagram.setImages(state.uploads): the classified uploads, and the buckets
\* #buildMarkers makes of them
ShownImages ==
    SelectSeq([k \in 1..Len(uploads) |->
                  Upload(items[uploads[k]].status, ResultLabel(uploads[k]), uploads[k])],
              IsClassified)
ShownBuckets == BuildMarkers(FullMapping, ShownImages, <<>>)

\* C32: within each bucket the images are in the order their classifications
\* completed: an image listed before another one was classified before it.
C32_CompletionOrder ==
    \A b \in DOMAIN ShownBuckets :
        \A j, k \in DOMAIN ShownBuckets[b].items :
            j < k => Pos(completed, ShownBuckets[b].items[j].remoteId)
                       < Pos(completed, ShownBuckets[b].items[k].remoteId)

\* C32 witness: two images classified one after the other share a bucket.
C32_Witness ==
    /\ Len(completed) = 2
    /\ Len(ShownBuckets) = 1
    /\ Len(ShownBuckets[1].items) = 2

\* the conversation.append requests a step registers
NewAppends == {r \in ReqIds : reqs[r].kind = "none" /\ reqs'[r].kind \in {"conv", "sync"}}

\* a change of the conversation text of a live session sends nothing and
\* leaves exactly one debounce timer armed
ChangeOnlyReschedules ==
    \A text \in 0..MaxTexts :
        (ConversationChange(text) /\ Live) => NothingRegistered /\ syncTimer' = 1

\* the step sends one conversation.append request, which carries the text of
\* the draft
SendsLatestText ==
    /\ Cardinality(NewAppends) = 1
    /\ \A r \in NewAppends : reqs'[r].text = conversationDraft /\ r \in PendingIds'
    /\ \A r \in ReqIds \ NewAppends : reqs'[r] = reqs[r]

\* C31, as stated: a burst of changes to the conversation text of a live
\* session sends nothing until the debounce timer of the last change fires,
\* and that produces exactly one conversation.append request with the
\* latest text.
C31_OneRequestPerBurst ==
    [][/\ ChangeOnlyReschedules
       /\ (SyncTimerFire /\ Live) => SendsLatestText /\ syncTimer' = 0]_vars

\* C31, amended: a burst of changes sends nothing and keeps one timer armed;
\* when that timer fires, exactly one conversation.append request with the
\* latest text is sent if that text is not blank and the connection is open,
\* and none otherwise.
C31_DebouncedSync ==
    [][/\ ChangeOnlyReschedules
       /\ (SyncTimerFire /\ Live) =>
              /\ syncTimer' = 0
              /\ IF conversationDraft # 0 /\ ~Unconnected
                 THEN SendsLatestText
                 ELSE NothingRegistered]_vars

\* C31 witness: no timer is armed and the only pending request is a
\* conversation.append that carries the latest of several texts.
C31_Witness ==
    /\ Live /\ syncTimer = 0
    /\ conversationDraft > 1
    /\ Len(realtimeRequests) = 1
    /\ reqs[realtimeRequests[1]].kind = "conv"
    /\ reqs[realtimeRequests[1]].text = conversationDraft

============================================================================
